---- MODULE Spec2Model ----
(***************************************************************************)
(* Model of the gc-agent client (React):                                   *)
(*   - App.jsx: the dual-channel authentication check (cookie + token),    *)
(*   - Submissions.jsx: course / assignment selection, submission fetch,   *)
(*     and the grading run, including the parser that recovers question    *)
(*     identifiers from `{id: <question_id>}` markers in a description.    *)
(* Every await of the source is a separate step: the code between two      *)
(* awaits runs atomically on the JavaScript event loop.                    *)
(* Strings that the parser reads are sequences of one-character strings.   *)
(***************************************************************************)
EXTENDS Integers, Sequences, FiniteSets, Bags, TLC

VARIABLES
    \* ---- marker parser, run on its own (Submissions.jsx 196-207)
    parts,          \* how the description was composed: markers and text chunks
    description,    \* the composed description, a sequence of characters
    questionIds,    \* the identifiers the parser pushed
    parsePc,        \* "ready" | "parsed"
    \* ---- App.jsx: authentication
    pathname,       \* location.pathname
    urlAuthToken,   \* auth_token of window.location.search, or NoToken
    storedToken,    \* localStorage session_token, or NoToken
    isAuthenticated,
    authChecked,
    mounted,        \* the first run of the auth effect has happened
    runs,           \* the async auth operations in flight, each at one await
    tokenEntry,     \* pathname of an earlier history entry whose URL still
                    \* carries the auth_token, or NoEntry
    exchangesSent,  \* create-session-token requests sent so far: 0, 1, or 2
                    \* for two and more (history)
    authEv,         \* what the last step of an auth operation saw (history)
    \* ---- Submissions.jsx
    courses,            \* the course list, once loaded
    selectedCourse,     \* "" or a course id
    selectedAssignment, \* "" or an assignment id
    assignments,        \* the assignment list last received
    submissions,        \* the displayed submissions
    loading,
    error,              \* "" or the message shown
    asgReqs,            \* /api/classroom/assignments requests in flight, per course
    gradePc,            \* where fetchSubmissions / handleGradeSubmissions waits
    reqLog,             \* the requests the current grading run has sent (history)
    gradeHist,          \* results of the last grading applied to this list (history)
    gradeEv,            \* what the last step of a grading run saw (history)
    \* ---- App.jsx: the questions being prepared, and AssignmentModal
    currentStep,            \* 'initial' | 'questions_generated'
    assignmentQuestions,    \* the list of question objects
    isLoading,
    loadingRubricIndex,     \* 0 (null) or the index whose rubric is being generated
    isModalOpen,            \* the custom input modal
    customQuestionIndex,    \* 0 (null) or the index the custom input is for
    questionsToAssign,      \* the questions handed to AssignmentModal
    assignmentTopic,
    isAssignmentModalOpen,
    modal,                  \* the state of AssignmentModal while it is rendered
    qops,                   \* the question operations in flight, each at its await
    questionStore,          \* the records the Question Store has persisted
    storeAnswers,           \* the stored_questions the store calls returned (history)
    qEv,                    \* what the last step of a question operation saw (history)
    clicks                  \* the clicks on the question buttons so far (history)

parseVars == <<parts, description, questionIds, parsePc>>

authVars == <<pathname, urlAuthToken, storedToken, isAuthenticated, authChecked,
              mounted, runs, tokenEntry, exchangesSent, authEv>>

subVars == <<courses, selectedCourse, selectedAssignment, assignments, submissions,
             loading, error, asgReqs, gradePc, reqLog, gradeHist, gradeEv>>

qVars == <<currentStep, assignmentQuestions, isLoading, loadingRubricIndex, isModalOpen,
           customQuestionIndex, questionsToAssign, assignmentTopic,
           isAssignmentModalOpen, modal, qops, questionStore, storeAnswers,
           qEv, clicks>>

\* what the auth operations, the parser run, the submissions view and the
\* question operations leave alone
notAuthVars == <<parseVars, subVars, qVars>>
notParseVars == <<authVars, subVars, qVars>>
notSubVars == <<authVars, parts, parsePc, qVars>>
notQVars == <<parseVars, subVars>>

vars == <<parseVars, authVars, subVars, qVars>>

\* ------------------------------------------------------------------ bounds

\* longest composition (number of markers and text chunks) of a description
MaxParts == 4

\* auth operations that may be in flight at the same time
MaxRuns == 1

\* submissions of one assignment
MaxSubs == 2

\* /api/classroom/assignments requests in flight for one course
MaxAsgReqs == 1

\* questions of one generated batch
MaxQuestions == 2

\* question operations that may be in flight at the same time
MaxOps == 2

\* clicks on the buttons of the question list in one session
MaxClicks == 3

\* ------------------------------------------------------------ sequences

Max(S) == CHOOSE x \in S : \A y \in S : y <= x

RECURSIVE Flatten(_)
Flatten(ss) == IF ss = <<>> THEN <<>> ELSE Head(ss) \o Flatten(Tail(ss))

\* the parser is not running
ParseIdle ==
    /\ parts = <<>>
    /\ description = <<>>
    /\ questionIds = <<>>
    /\ parsePc = "parsed"

\* nothing graded since the displayed list was last replaced
NoGradeHist == [set |-> FALSE, results |-> <<>>]

NoLookup == [kind |-> "none", status |-> "none", questions |-> "none"]

NoGradeEv == [op |-> "none", lookup |-> NoLookup, ids |-> <<>>, sent |-> {},
              results |-> <<>>, errors |-> <<>>,
              total |-> 0, graded |-> 0, batch |-> <<>>, outs |-> <<>>, before |-> <<>>,
              repeat |-> FALSE, second |-> FALSE]

\* the submissions view is not mounted
SubIdle ==
    /\ courses = <<>>
    /\ selectedCourse = ""
    /\ selectedAssignment = ""
    /\ assignments = <<>>
    /\ submissions = <<>>
    /\ loading = FALSE
    /\ error = ""
    /\ asgReqs = <<>>
    /\ gradePc = "unmounted"
    /\ reqLog = {}
    /\ gradeHist = NoGradeHist
    /\ gradeEv = NoGradeEv

\* AssignmentModal is not rendered
ModalClosed == [courses |-> {}, selectedCourse |-> "", loading |-> FALSE, error |-> "",
                fetching |-> FALSE]

\* what a step of a question operation found, comparing the list it leaves
\* with the list of the render it was created in and with the list it replaced
NoQEv == [op |-> "none", index |-> 0, outcome |-> "none",
          hadIds |-> FALSE, idsKept |-> TRUE, rowKept |-> TRUE, othersKept |-> TRUE,
          hadPeers |-> FALSE, peersKept |-> TRUE, heldAny |-> FALSE, heldKept |-> TRUE,
          sent |-> <<>>, detached |-> FALSE]

\* lines 16-28: no question generated yet
QIdle ==
    /\ currentStep = "initial"
    /\ assignmentQuestions = <<>>
    /\ isLoading = FALSE
    /\ loadingRubricIndex = 0
    /\ isModalOpen = FALSE
    /\ customQuestionIndex = 0
    /\ questionsToAssign = <<>>
    /\ assignmentTopic = ""
    /\ isAssignmentModalOpen = FALSE
    /\ modal = ModalClosed
    /\ qops = EmptyBag
    /\ questionStore = <<>>
    /\ storeAnswers = {}
    /\ qEv = NoQEv
    /\ clicks = 0

\* ------------------------------------------------ App.jsx: authentication

NoToken == "none"

NoEntry == "none"

Paths == {"/", "/login", "/home", "/questions", "/submissions"}

\* line 95: the routes checkAuthStatus leaves for /login when both checks fail
ProtectedPath(p) == p \in {"/home", "/questions", "/submissions"}

\* what a request of checkAuthStatus can come back with: an ok response whose
\* body says logged_in or not, a response that is not ok, or a rejected promise
\* (fetch or response.json() throws)
AuthOutcomes == {"ok_true", "ok_false", "notok", "throw"}

\* what create-session-token and logout can come back with
PlainOutcomes == {"ok", "notok", "throw"}

\* lines 44-47 and 73-76 with the condition on logged_in negated
ReportsLoggedInNegated(resp) == resp = "ok_false"

\* lines 44-47 and 73-76: response.ok and data.logged_in
ReportsLoggedIn(resp) == resp = "ok_true"

\* line 85 left out: the token stays
TokenKept(tok) == tok

\* line 85: localStorage.removeItem('session_token')
TokenAfterRejectedVerify(tok) == NoToken

\* what checkAuthStatus reads of the pathname it was created with: whether
\* it is a route of line 95, or /login (line 103), or neither
RouteKind(p) == IF ProtectedPath(p) THEN "protected"
                ELSE IF p = "/login" THEN "login"
                ELSE "other"

IdleRun == [pc |-> "idle", path |-> "other", cookie |-> "unsent", tok |-> NoToken]

NoAuthEv == [op |-> "none", cookie |-> "unsent", stored |-> NoToken, verify |-> "unsent"]

HasFreeSlot(rs) == \E r \in DOMAIN rs : rs[r].pc = "idle"

FreeSlot(rs) == CHOOSE r \in DOMAIN rs :
                    rs[r].pc = "idle" /\ \A q \in DOMAIN rs : rs[q].pc = "idle" => r <= q

\* position of x in the sequence q (0: not there)
IndexOf(q, x) == IF \E i \in 1..Len(q) : q[i] = x
                 THEN CHOOSE i \in 1..Len(q) : q[i] = x
                 ELSE 0

\* the operations in flight are a collection without order: the slots are
\* kept sorted, the idle ones last, so that one collection is one state
RunKey(run) ==
    IF run.pc = "idle" THEN 1000
    ELSE 100 * IndexOf(<<"timer", "cookie", "verify", "exchange", "logout">>, run.pc)
         + 10 * IndexOf(<<"other", "login", "protected">>, run.path)
         + 3 * IndexOf(<<"ok_false", "notok">>, run.cookie)
         + IndexOf(<<"old", "new">>, run.tok)

InFlight(rs) == SortSeq(rs, LAMBDA a, b : RunKey(a) < RunKey(b))

\* lines 197-213: the effect on location.pathname, up to the first await or
\* timer of the operation it starts; the operation keeps the pathname of the
\* render it was created in, as far as it reads it
RunAuthEffect(rs, path, url, checked) ==
    [rs EXCEPT ![FreeSlot(rs)] =
        [pc |-> IF url # NoToken THEN "exchange"
                ELSE IF path = "/home" /\ ~checked THEN "timer"
                ELSE "cookie",
         path |-> RouteKind(path), cookie |-> "unsent", tok |-> NoToken]]

\* navigate(to): the location changes, the query string is gone, and the
\* effect runs again when the pathname differs
AfterNavigate(rs, to, checked) ==
    IF to # pathname THEN RunAuthEffect(rs, to, NoToken, checked) ELSE rs

\* navigate(to) pushes a history entry: when the URL left behind carries the
\* auth_token, that entry stays in the browser's history
EntryLeftBehind == IF urlAuthToken # NoToken THEN pathname ELSE tokenEntry

\* lines 202-204 and 120-127: the effect calls handleAuthCallback, which sends
\* the auth_token of the URL to /api/auth/create-session-token
ExchangesAfterEffect(n, url) == IF url # NoToken /\ n < 2 THEN n + 1 ELSE n

AuthIdle ==
    /\ pathname = "/"
    /\ urlAuthToken = NoToken
    /\ storedToken = NoToken
    /\ isAuthenticated = FALSE
    /\ authChecked = FALSE
    /\ mounted = TRUE
    /\ runs = [r \in 1..MaxRuns |-> IdleRun]
    /\ tokenEntry = NoEntry
    /\ exchangesSent = 0
    /\ authEv = NoAuthEv

\* lines 13-30: the state after construction; the URL the page was opened
\* with and the token a previous visit left in localStorage are inputs
InitAuth ==
    /\ ParseIdle
    /\ SubIdle
    /\ QIdle
    /\ pathname \in Paths
    /\ urlAuthToken \in {NoToken, "at"}
    /\ storedToken \in {NoToken, "old"}
    /\ isAuthenticated = FALSE
    /\ authChecked = FALSE
    /\ mounted = FALSE
    /\ runs = [r \in 1..MaxRuns |-> IdleRun]
    /\ tokenEntry = NoEntry
    /\ exchangesSent = 0
    /\ authEv = NoAuthEv

\* lines 197-213: the effect's run on mount
Mount ==
    /\ UNCHANGED notAuthVars
    /\ ~mounted
    /\ mounted' = TRUE
    /\ runs' = InFlight(RunAuthEffect(runs, pathname, urlAuthToken, authChecked))
    /\ exchangesSent' = ExchangesAfterEffect(exchangesSent, urlAuthToken)
    /\ authEv' = NoAuthEv
    /\ UNCHANGED <<pathname, urlAuthToken, storedToken, isAuthenticated, authChecked,
                   tokenEntry>>

\* lines 207-209: the 500 ms timer fires and calls checkAuthStatus, which
\* sends /api/check_auth (line 38)
TimerFires(r) ==
    /\ UNCHANGED notAuthVars
    /\ runs[r].pc = "timer"
    /\ runs' = InFlight([runs EXCEPT ![r].pc = "cookie"])
    /\ authEv' = NoAuthEv
    /\ UNCHANGED <<pathname, urlAuthToken, storedToken, isAuthenticated, authChecked,
                   mounted, tokenEntry, exchangesSent>>

\* lines 48-51 and 77-80: a channel accepted the caller
AuthAccepted(r, ev) ==
    /\ isAuthenticated' = TRUE
    /\ authChecked' = TRUE
    /\ runs' = InFlight([runs EXCEPT ![r] = IdleRun])
    /\ authEv' = ev
    /\ UNCHANGED <<pathname, urlAuthToken, storedToken, mounted, tokenEntry,
                   exchangesSent>>

\* lines 89-97: both methods failed
AuthRejected(r, ev, tok) ==
    /\ isAuthenticated' = FALSE
    /\ authChecked' = TRUE
    /\ storedToken' = tok
    /\ authEv' = ev
    /\ IF runs[r].path = "protected"
       THEN /\ pathname' = "/login"
            /\ urlAuthToken' = NoToken
            /\ tokenEntry' = EntryLeftBehind
            /\ runs' = InFlight(AfterNavigate([runs EXCEPT ![r] = IdleRun], "/login", TRUE))
       ELSE /\ runs' = InFlight([runs EXCEPT ![r] = IdleRun])
            /\ UNCHANGED <<pathname, urlAuthToken, tokenEntry>>
    /\ UNCHANGED <<mounted, exchangesSent>>

\* line 102 left out: the catch block leaves authChecked as it was
CheckedKeptOnThrow(checked) == checked

\* line 102: setAuthChecked(true) in the catch block
CheckedAfterThrow(checked) == TRUE

\* lines 99-106: the catch block
AuthCheckThrew(r, ev) ==
    /\ isAuthenticated' = FALSE
    /\ authChecked' = CheckedAfterThrow(authChecked)
    /\ authEv' = ev
    /\ IF runs[r].path # "login"
       THEN /\ pathname' = "/login"
            /\ urlAuthToken' = NoToken
            /\ tokenEntry' = EntryLeftBehind
            /\ runs' = InFlight(AfterNavigate([runs EXCEPT ![r] = IdleRun], "/login", TRUE))
       ELSE /\ runs' = InFlight([runs EXCEPT ![r] = IdleRun])
            /\ UNCHANGED <<pathname, urlAuthToken, tokenEntry>>
    /\ UNCHANGED <<storedToken, mounted, exchangesSent>>

\* lines 38-69 and 89-106: /api/check_auth comes back
CookieResponse(r) ==
    /\ UNCHANGED notAuthVars
    /\ runs[r].pc = "cookie"
    /\ \E resp \in AuthOutcomes :
        LET ev == [op |-> "check", cookie |-> resp, stored |-> storedToken,
                   verify |-> "unsent"]
        IN IF resp = "throw" THEN AuthCheckThrew(r, ev)
           ELSE IF ReportsLoggedIn(resp) THEN AuthAccepted(r, ev)
           ELSE IF storedToken # NoToken
                THEN /\ runs' = InFlight([runs EXCEPT ![r].pc = "verify", ![r].cookie = resp,
                                               ![r].tok = storedToken])
                     /\ authEv' = NoAuthEv
                     /\ UNCHANGED <<pathname, urlAuthToken, storedToken,
                                    isAuthenticated, authChecked, mounted,
                                    tokenEntry, exchangesSent>>
                ELSE AuthRejected(r, ev, storedToken)

\* lines 62-106: /api/auth/verify-session-token comes back
VerifyResponse(r) ==
    /\ UNCHANGED notAuthVars
    /\ runs[r].pc = "verify"
    /\ \E resp \in AuthOutcomes :
        LET ev == [op |-> "check", cookie |-> runs[r].cookie, stored |-> runs[r].tok,
                   verify |-> resp]
        IN IF resp = "throw" THEN AuthCheckThrew(r, ev)
           ELSE IF ReportsLoggedIn(resp) THEN AuthAccepted(r, ev)
           ELSE AuthRejected(r, ev, TokenAfterRejectedVerify(storedToken))

\* the session_token of the response stored whatever the status
TokenStoredAlways(tok, resp) == IF resp = "throw" THEN NoToken ELSE "new"

\* lines 129-134, 149 and 157: localStorage after the exchange was answered
TokenAfterExchange(tok, resp) == IF resp = "ok" THEN "new" ELSE NoToken

\* lines 129-161: /api/auth/create-session-token comes back
ExchangeResponse(r) ==
    /\ UNCHANGED notAuthVars
    /\ runs[r].pc = "exchange"
    /\ \E resp \in PlainOutcomes :
        /\ authEv' = [NoAuthEv EXCEPT !.op = "exchange", !.cookie = resp,
                                      !.stored = storedToken]
        /\ authChecked' = TRUE
        /\ urlAuthToken' = NoToken
        /\ storedToken' = TokenAfterExchange(storedToken, resp)
        /\ IF resp = "ok"
           THEN \* line 138: replaceState takes the query off the current entry
                /\ isAuthenticated' = TRUE
                /\ pathname' = "/home"
                /\ runs' = InFlight(AfterNavigate([runs EXCEPT ![r] = IdleRun], "/home", TRUE))
                /\ UNCHANGED tokenEntry
           ELSE /\ isAuthenticated' = FALSE
                /\ pathname' = "/login"
                /\ runs' = InFlight(AfterNavigate([runs EXCEPT ![r] = IdleRun], "/login", TRUE))
                /\ tokenEntry' = EntryLeftBehind
    /\ UNCHANGED <<mounted, exchangesSent>>

\* lines 215-220: the Sidebar's logout button, shown on a protected route
\* to an authenticated client, sends /api/auth/google/logout
LogoutClick ==
    /\ UNCHANGED notAuthVars
    /\ mounted /\ authChecked /\ isAuthenticated /\ ProtectedPath(pathname)
    /\ HasFreeSlot(runs)
    /\ runs' = InFlight([runs EXCEPT ![FreeSlot(runs)] = [IdleRun EXCEPT !.pc = "logout"]])
    /\ authEv' = NoAuthEv
    /\ UNCHANGED <<pathname, urlAuthToken, storedToken, isAuthenticated, authChecked,
                   mounted, tokenEntry, exchangesSent>>

\* the catch block without line 230: a thrown request leaves the token
TokenKeptWhenLogoutThrows(tok, resp) == IF resp = "throw" THEN tok ELSE NoToken

\* lines 222 and 230: localStorage.removeItem('session_token') on both paths
TokenAfterLogout(tok, resp) == NoToken

\* lines 221-233: the logout request comes back or throws
LogoutResponse(r) ==
    /\ UNCHANGED notAuthVars
    /\ runs[r].pc = "logout"
    /\ \E resp \in PlainOutcomes :
        /\ authEv' = [NoAuthEv EXCEPT !.op = "logout", !.cookie = resp,
                                      !.stored = storedToken]
        /\ storedToken' = TokenAfterLogout(storedToken, resp)
    /\ isAuthenticated' = FALSE
    /\ pathname' = "/login"
    /\ urlAuthToken' = NoToken
    /\ tokenEntry' = EntryLeftBehind
    /\ runs' = InFlight(AfterNavigate([runs EXCEPT ![r] = IdleRun], "/login", authChecked))
    /\ UNCHANGED <<authChecked, mounted, exchangesSent>>

\* a route change from outside the auth code: navigate('/home') of the login
\* page, navigate('/questions') after generation, the browser's history
RouteChange ==
    /\ UNCHANGED notAuthVars
    /\ mounted
    /\ HasFreeSlot(runs)
    /\ \E to \in Paths :
        /\ to # pathname
        /\ pathname' = to
        /\ urlAuthToken' = NoToken
        /\ tokenEntry' = EntryLeftBehind
        /\ runs' = InFlight(AfterNavigate(runs, to, authChecked))
    /\ authEv' = NoAuthEv
    /\ UNCHANGED <<storedToken, isAuthenticated, authChecked, mounted, exchangesSent>>

\* lines 420-433 left out: the routes are rendered before the check is done
RenderedUnchecked(checked, path, authenticated) ==
    IF path = "/" THEN "redirect"
    ELSE IF path = "/login" THEN "login"
    ELSE IF authenticated THEN "content"
    ELSE "redirect"

\* lines 420-548: what App renders: the loading screen while authChecked is
\* false (lines 420-433), else the element of the route that matches: "/"
\* is <Navigate to="/login"> (line 437), /login is <Login /> (438), and
\* /home, /questions and /submissions are their content when isAuthenticated
\* and <Navigate to="/login"> otherwise (439-546)
Rendered(checked, path, authenticated) ==
    IF ~checked THEN "loading"
    ELSE IF path = "/" THEN "redirect"
    ELSE IF path = "/login" THEN "login"
    ELSE IF authenticated THEN "content"
    ELSE "redirect"

\* lines 437, 484, 532, 544: <Navigate to="/login" replace /> of the rendered route
RouteRedirect ==
    /\ UNCHANGED notAuthVars
    /\ mounted
    /\ Rendered(authChecked, pathname, isAuthenticated) = "redirect"
    /\ HasFreeSlot(runs)
    /\ pathname' = "/login"
    /\ urlAuthToken' = NoToken
    /\ runs' = InFlight(AfterNavigate(runs, "/login", authChecked))
    /\ authEv' = NoAuthEv
    /\ UNCHANGED <<storedToken, isAuthenticated, authChecked, mounted, tokenEntry,
                   exchangesSent>>

\* the browser's Back button reaches the history entry that still carries the
\* auth_token: the location is that entry's again, and the effect of lines
\* 197-213 runs when the pathname differs, reading the auth_token from
\* window.location.search
BrowserBack ==
    /\ UNCHANGED notAuthVars
    /\ mounted
    /\ tokenEntry # NoEntry
    /\ urlAuthToken = NoToken
    /\ HasFreeSlot(runs)
    /\ pathname' = tokenEntry
    /\ urlAuthToken' = "at"
    /\ tokenEntry' = NoEntry
    /\ IF tokenEntry # pathname
       THEN /\ runs' = InFlight(RunAuthEffect(runs, tokenEntry, "at", authChecked))
            /\ exchangesSent' = ExchangesAfterEffect(exchangesSent, "at")
       ELSE UNCHANGED <<runs, exchangesSent>>
    /\ authEv' = NoAuthEv
    /\ UNCHANGED <<storedToken, isAuthenticated, authChecked, mounted>>

NextAuth ==
    \/ Mount
    \/ \E r \in 1..MaxRuns : TimerFires(r)
    \/ \E r \in 1..MaxRuns : CookieResponse(r)
    \/ \E r \in 1..MaxRuns : VerifyResponse(r)
    \/ \E r \in 1..MaxRuns : ExchangeResponse(r)
    \/ LogoutClick
    \/ \E r \in 1..MaxRuns : LogoutResponse(r)
    \/ RouteChange
    \/ RouteRedirect
    \/ BrowserBack

SpecAuth == InitAuth /\ [][NextAuth]_vars

\* the effect of lines 197-213 runs after the first render, the timer of
\* line 207 fires, and every request sent is answered or throws
AuthFairness ==
    /\ WF_vars(Mount)
    /\ WF_vars(\E r \in 1..MaxRuns : TimerFires(r))
    /\ WF_vars(\E r \in 1..MaxRuns : CookieResponse(r))
    /\ WF_vars(\E r \in 1..MaxRuns : VerifyResponse(r))
    /\ WF_vars(\E r \in 1..MaxRuns : ExchangeResponse(r))

SpecAuthLive == InitAuth /\ [][NextAuth]_vars /\ AuthFairness

\* ---------------------------------- claims about the authentication check

\* C1: either channel alone is enough: a run of checkAuthStatus ends with
\* isAuthenticated and authChecked true when the cookie check reports
\* logged_in, with or without a stored token, or when the cookie check does
\* not, a token is stored and verify-session-token reports logged_in.
C1_EitherChannelSuffices ==
    ( /\ authEv.op = "check"
      /\ \/ authEv.cookie = "ok_true"
         \/ /\ authEv.cookie \in {"ok_false", "notok"}
            /\ authEv.stored # NoToken
            /\ authEv.verify = "ok_true" )
    => (isAuthenticated /\ authChecked)

\* the token channel alone: cookie refused, stored token verified
C1_Witness ==
    /\ authEv.op = "check"
    /\ authEv.cookie = "notok"
    /\ authEv.stored # NoToken
    /\ authEv.verify = "ok_true"
    /\ isAuthenticated

\* C2: when the cookie check does not report logged_in and the server answers
\* the verification of the stored token without logged_in, the run ends
\* anonymous, with authChecked true and no session_token in localStorage.
C2_InvalidTokenDiscarded ==
    ( /\ authEv.op = "check"
      /\ authEv.cookie \in {"ok_false", "notok"}
      /\ authEv.stored # NoToken
      /\ authEv.verify \in {"ok_false", "notok"} )
    => (~isAuthenticated /\ authChecked /\ storedToken = NoToken)

\* a stored token that the server refused
C2_Witness ==
    /\ authEv.op = "check"
    /\ authEv.cookie = "ok_false"
    /\ authEv.stored = "old"
    /\ authEv.verify = "notok"
    /\ storedToken = NoToken

\* C3: whenever an auth check ends anonymous, on every path, a thrown request
\* included, no session_token is left in localStorage.
C3_AnonymousHoldsNoToken ==
    (authEv.op = "check" /\ ~isAuthenticated) => storedToken = NoToken

\* C11: when handleLogout finishes, whether the logout request succeeded,
\* answered with an error status or threw, localStorage holds no
\* session_token, isAuthenticated is false and the location is /login.
C11_LogoutEndsAnonymous ==
    authEv.op = "logout" =>
        (storedToken = NoToken /\ ~isAuthenticated /\ pathname = "/login")

\* a token was stored and the logout request threw
C11_Witness ==
    /\ authEv.op = "logout"
    /\ authEv.cookie = "throw"
    /\ authEv.stored # NoToken
    /\ storedToken = NoToken

\* C12: when create-session-token answers with a status that is not ok, or
\* the request throws, handleAuthCallback leaves no session_token stored,
\* isAuthenticated false, authChecked true and the location /login; and no
\* step writes a session_token except the one that received an ok response.
C12_FailedExchangeLeavesAnonymous ==
    /\ []((authEv.op = "exchange" /\ authEv.cookie # "ok") =>
            (storedToken = NoToken /\ ~isAuthenticated /\ authChecked
             /\ pathname = "/login"))
    /\ [][(storedToken' # storedToken /\ storedToken' # NoToken) =>
            (authEv'.op = "exchange" /\ authEv'.cookie = "ok")]_vars

\* a token of an earlier visit was stored and the exchange was refused
C12_Witness ==
    /\ authEv.op = "exchange"
    /\ authEv.cookie = "notok"
    /\ authEv.stored = "old"
    /\ storedToken = NoToken
    /\ pathname = "/login"

NoDescription == "null"

\* \s of the regular expression and the characters String.trim() strips
IsWhitespace(c) == c \in {" "}

\* greedy \s* from index i: the first index at or after i that holds no whitespace
RECURSIVE SkipWhitespace(_, _)
SkipWhitespace(s, i) ==
    IF i <= Len(s) /\ IsWhitespace(s[i]) THEN SkipWhitespace(s, i + 1) ELSE i

\* greedy [^}]* from index i: the first index at or after i that holds "}" (or Len+1)
RECURSIVE SkipNonBrace(_, _)
SkipNonBrace(s, i) ==
    IF i <= Len(s) /\ s[i] # "}" THEN SkipNonBrace(s, i + 1) ELSE i

\* the literal {id: at index p
LiteralAt(s, p) ==
    /\ p + 3 <= Len(s)
    /\ s[p] = "{" /\ s[p + 1] = "i" /\ s[p + 2] = "d" /\ s[p + 3] = ":"

\* where group 1 may start for a match of /\{id:\s*([^}]+)\}/ at p: after k
\* whitespace characters, with at least one non-} character up to a closing }
GroupStarts(s, p) ==
    { g \in (p + 4)..SkipWhitespace(s, p + 4) :
        LET e == SkipNonBrace(s, g) IN e > g /\ e <= Len(s) /\ s[e] = "}" }

\* the match of /\{id:\s*([^}]+)\}/ that starts at p: \s* is greedy, so the
\* engine keeps the longest whitespace run that still lets the rest match
MatchAt(s, p) ==
    IF LiteralAt(s, p) /\ GroupStarts(s, p) # {}
    THEN LET g == Max(GroupStarts(s, p))
         IN [ok |-> TRUE, from |-> g, to |-> SkipNonBrace(s, g) - 1,
             last |-> SkipNonBrace(s, g)]
    ELSE [ok |-> FALSE, from |-> 0, to |-> 0, last |-> 0]

\* the pattern without its g flag: String.match stops at the first match
RECURSIVE MatchFirstOnly(_, _)
MatchFirstOnly(s, p) ==
    IF p > Len(s) THEN <<>>
    ELSE LET m == MatchAt(s, p)
         IN IF m.ok THEN <<SubSeq(s, p, m.last)>> ELSE MatchFirstOnly(s, p + 1)

\* description.match(/.../g): every non-overlapping match, left to right
RECURSIVE MatchAll(_, _)
MatchAll(s, p) ==
    IF p > Len(s) THEN <<>>
    ELSE LET m == MatchAt(s, p)
         IN IF m.ok THEN <<SubSeq(s, p, m.last)>> \o MatchAll(s, m.last + 1)
            ELSE MatchAll(s, p + 1)

\* match.match(/.../)[1]: group 1 of the first match inside one matched text
RECURSIVE Group1(_, _)
Group1(s, p) ==
    LET m == MatchAt(s, p)
    IN IF m.ok THEN SubSeq(s, m.from, m.to)
       ELSE IF p >= Len(s) THEN <<>> ELSE Group1(s, p + 1)

\* String.prototype.trim
RECURSIVE TrimEnd(_)
TrimEnd(s) ==
    IF s # <<>> /\ IsWhitespace(s[Len(s)]) THEN TrimEnd(SubSeq(s, 1, Len(s) - 1)) ELSE s

Trim(s) == TrimEnd(SubSeq(s, SkipWhitespace(s, 1), Len(s)))

\* lines 196-207: the identifiers pushed to questionIds, in order
ExtractQuestionIds(desc) ==
    IF desc = NoDescription \/ desc = <<>> THEN <<>>
    ELSE LET idMatches == MatchAll(desc, 1)
         IN [i \in 1..Len(idMatches) |-> Trim(Group1(idMatches[i], 1))]

\* ---------------------------------------- composing a description

\* question identifiers that get embedded
IdTokens == { <<"a">>, <<"b">>, <<"a", " ", "b">> }

\* pieces of surrounding text
TextChunks == { <<"{", "i", "d", ":">>, <<" ">>, <<"a">>, <<"}">>, <<"{">> }

PartSet == [kind : {"marker"}, s : IdTokens] \cup [kind : {"text"}, s : TextChunks]

\* the marker of one question: literal {id:, one space, the identifier, }
Embed(id) == <<"{", "i", "d", ":", " ">> \o id \o <<"}">>

PartText(p) == IF p.kind = "marker" THEN Embed(p.s) ELSE p.s

Compose(ps) == Flatten([i \in 1..Len(ps) |-> PartText(ps[i])])

InitParse ==
    /\ AuthIdle
    /\ SubIdle
    /\ QIdle
    /\ parts \in UNION { [1..n -> PartSet] : n \in 0..MaxParts }
    /\ description = Compose(parts)
    /\ questionIds = <<>>
    /\ parsePc = "ready"

\* the parsing block of handleGradeSubmissions applied to the description
ParseDescription ==
    /\ parsePc = "ready"
    /\ questionIds' = ExtractQuestionIds(description)
    /\ parsePc' = "parsed"
    /\ UNCHANGED <<parts, description>>
    /\ UNCHANGED notParseVars

NextParse == ParseDescription

SpecParse == InitParse /\ [][NextParse]_vars

\* ------------------------------------------- claims about the parser

\* the identifiers that were embedded, in the order of their markers
MarkerIds(ps) ==
    LET ms == SelectSeq(ps, LAMBDA p : p.kind = "marker")
    IN [i \in 1..Len(ms) |-> ms[i].s]

\* the pieces of human-readable text: maximal runs of text chunks between markers
TextRuns(ps) ==
    { Compose(SubSeq(ps, i, j)) : <<i, j>> \in
        { ij \in (1..Len(ps)) \X (1..Len(ps)) :
            /\ ij[1] <= ij[2]
            /\ \A k \in ij[1]..ij[2] : ps[k].kind = "text"
            /\ (ij[1] = 1 \/ ps[ij[1] - 1].kind = "marker")
            /\ (ij[2] = Len(ps) \/ ps[ij[2] + 1].kind = "marker") } }

\* the pattern finds no marker inside the text
HoldsNoMarker(t) == MatchAll(t, 1) = <<>>

\* the text nowhere holds the marker opening {id:
HoldsNoOpening(t) == \A p \in 1..Len(t) : ~LiteralAt(t, p)

\* an identifier token of the documented grammar: not empty, no }, and no
\* whitespace at either end
WellFormedToken(id) ==
    /\ id # <<>>
    /\ \A i \in 1..Len(id) : id[i] # "}"
    /\ ~IsWhitespace(id[1]) /\ ~IsWhitespace(id[Len(id)])

\* the documented grammar: {id: , whitespace, a token, optional whitespace, }
ConformsToGrammar(m) ==
    /\ LiteralAt(m, 1)
    /\ Len(m) >= 7
    /\ IsWhitespace(m[5])
    /\ m[Len(m)] = "}"
    /\ WellFormedToken(Trim(SubSeq(m, 5, Len(m) - 1)))

\* every match of the pattern in the description is a marker of the
\* documented grammar
OnlyGrammarMatches(desc) ==
    \A i \in 1..Len(MatchAll(desc, 1)) : ConformsToGrammar(MatchAll(desc, 1)[i])

\* C5 as stated: identifiers embedded as {id: <id>} markers between any text
\* that itself contains no marker are parsed back exactly, none more, none
\* fewer. Stated here for the descriptions in which the pattern matches
\* nothing but markers of the documented grammar, so that the pattern's
\* optional whitespace (C6) plays no part in a violation.
C5_RoundTripAnyText ==
    ( /\ parsePc = "parsed"
      /\ \A t \in TextRuns(parts) : HoldsNoMarker(t)
      /\ OnlyGrammarMatches(description) )
        => questionIds = MarkerIds(parts)

\* C5 amended: identifiers embedded as {id: <id>} markers between any text that
\* does not contain the opening {id: are parsed back exactly, in marker order.
C5_RoundTripNoOpening ==
    (parsePc = "parsed" /\ \A t \in TextRuns(parts) : HoldsNoOpening(t))
        => questionIds = MarkerIds(parts)

\* two different identifiers, one with inner whitespace, text before, between
\* and after the markers that holds braces, parsed
C5_Witness ==
    /\ parsePc = "parsed"
    /\ Len(parts) = 4
    /\ parts[1].kind = "text" /\ parts[1].s = <<"}">>
    /\ parts[2].kind = "marker" /\ parts[2].s = <<"a", " ", "b">>
    /\ parts[3].kind = "text" /\ parts[3].s = <<"{">>
    /\ parts[4].kind = "marker" /\ parts[4].s = <<"b">>
    /\ \A t \in TextRuns(parts) : HoldsNoOpening(t)

\* C6: the parser accepts exactly the documented grammar: each identifier it
\* yields is a well-formed token, and it yields one only for text that has
\* whitespace after {id: and an identifier token.
C6_ParserAcceptsExactlyGrammar ==
    parsePc = "parsed" =>
        /\ \A i \in 1..Len(questionIds) : WellFormedToken(questionIds[i])
        /\ \A i \in 1..Len(MatchAll(description, 1)) :
               ConformsToGrammar(MatchAll(description, 1)[i])

\* ------------------------------------------------------- Submissions.jsx

Courses == {"c1", "c2"}

\* the classroom service's assignments: a description with two markers
\* between text, one that was never set, and one with text only
ServerAssignments(c) ==
    IF c = "c1"
    THEN << [id |-> "a1", title |-> "t1",
             description |-> <<"a", " ">> \o Embed(<<"a">>) \o <<"}">> \o Embed(<<"b">>)],
            [id |-> "a2", title |-> "t2", description |-> NoDescription] >>
    ELSE << [id |-> "a3", title |-> "t3", description |-> <<"a", " ", "}">>] >>

SubIds == 1..MaxSubs

\* GradeResult values
Grades == {"g1", "g2"}

NoGrade == "none"

\* sequences without repetition over S, up to n long
InjectiveSeqs(S, n) ==
    { q \in UNION { [1..k -> S] : k \in 0..n } :
        \A i, j \in 1..Len(q) : i # j => q[i] # q[j] }

\* a submission as the classroom service lists it
FreshSubmission(id) == [id |-> id, aiGrade |-> NoGrade, isGraded |-> FALSE]

\* the answers of the two question lookups
LookupOutcomes ==
    { [kind |-> k, status |-> "error", questions |-> "absent"] : k \in {"throw", "notok"} }
    \cup [kind : {"ok"}, status : {"success", "error"},
          questions : {"absent", "empty", "some"}]

\* line 248 with the length test left out
QuestionsFoundUnlessAbsent(resp) ==
    ~(resp.status # "success" \/ resp.questions = "absent")

\* line 248: the lookup resolved at least one question
QuestionsFound(resp) ==
    ~(resp.status # "success" \/ resp.questions = "absent" \/ resp.questions = "empty")

\* line 213 inverted: the title lookup whenever markers were found
UseIdLookupInverted(ids) == Len(ids) = 0

\* line 213: questionIds.length > 0
UseIdLookup(ids) == Len(ids) > 0

\* results.find(r => r.submission_id === id): the index of the first entry, or 0
FindResult(results, id) ==
    IF \E r \in 1..Len(results) : results[r].submission_id = id
    THEN CHOOSE r \in 1..Len(results) :
            /\ results[r].submission_id = id
            /\ \A q \in 1..(r - 1) : results[q].submission_id # id
    ELSE 0

\* results matched by position instead of by submission_id
ApplyGradesByPosition(prev, results) ==
    [i \in 1..Len(prev) |->
        IF i <= Len(results)
        THEN [prev[i] EXCEPT !.aiGrade = results[i].grading_result, !.isGraded = TRUE]
        ELSE prev[i]]

\* a grade once set is kept
ApplyGradesKeepFirst(prev, results) ==
    [i \in 1..Len(prev) |->
        IF FindResult(results, prev[i].id) # 0 /\ ~prev[i].isGraded
        THEN [prev[i] EXCEPT !.aiGrade = results[FindResult(results, prev[i].id)].grading_result,
                             !.isGraded = TRUE]
        ELSE prev[i]]

\* every displayed submission marked as graded
ApplyGradesMarkAll(prev, results) ==
    [i \in 1..Len(prev) |->
        IF FindResult(results, prev[i].id) # 0
        THEN [prev[i] EXCEPT !.aiGrade = results[FindResult(results, prev[i].id)].grading_result,
                             !.isGraded = TRUE]
        ELSE [prev[i] EXCEPT !.isGraded = TRUE]]

\* lines 281-293: the updater passed to setSubmissions
ApplyGrades(prev, results) ==
    [i \in 1..Len(prev) |->
        IF FindResult(results, prev[i].id) # 0
        THEN [prev[i] EXCEPT !.aiGrade = results[FindResult(results, prev[i].id)].grading_result,
                             !.isGraded = TRUE]
        ELSE prev[i]]

\* the grading batch of the backend: each submission of the batch is scored
\* or fails on its own; a scored one gets a result entry, a failed one an
\* error entry, and the counts are reported
ServerGradeBatch(batch, outs) ==
    LET scored == SelectSeq([i \in 1..Len(batch) |-> [id |-> batch[i], out |-> outs[i]]],
                            LAMBDA e : e.out # "fail")
        failed == SelectSeq([i \in 1..Len(batch) |-> [id |-> batch[i], out |-> outs[i]]],
                            LAMBDA e : e.out = "fail")
    IN [results |-> [i \in 1..Len(scored) |->
                        [submission_id |-> scored[i].id, grading_result |-> scored[i].out]],
        errors |-> [i \in 1..Len(failed) |-> failed[i].id],
        total_submissions |-> Len(batch),
        graded_count |-> Len(scored)]

\* the submissions the classroom service holds for the graded assignment
ServerBatch == [i \in 1..MaxSubs |-> i]

\* lines 5-11 and 13-15: the view mounts and requests the courses
InitSub ==
    /\ AuthIdle
    /\ ParseIdle
    /\ QIdle
    /\ courses = <<>>
    /\ selectedCourse = ""
    /\ selectedAssignment = ""
    /\ assignments = <<>>
    /\ submissions = <<>>
    /\ loading = FALSE
    /\ error = ""
    /\ asgReqs = [c \in Courses |-> 0]
    /\ gradePc = "courses"
    /\ reqLog = {}
    /\ gradeHist = NoGradeHist
    /\ gradeEv = NoGradeEv

\* lines 25-46: /api/classroom/courses comes back
CoursesResponse ==
    /\ gradePc = "courses"
    /\ gradePc' = "idle"
    /\ \E resp \in {"ok", "401", "notok", "throw"} :
        IF resp = "ok" THEN courses' = <<"c1", "c2">> /\ UNCHANGED error
        ELSE IF resp = "401" THEN error' = "Authentication expired" /\ UNCHANGED courses
        ELSE error' = "Failed to load courses" /\ UNCHANGED courses
    /\ gradeEv' = NoGradeEv
    /\ UNCHANGED <<selectedCourse, selectedAssignment, assignments, submissions, loading,
                   asgReqs, reqLog, gradeHist>>
    /\ UNCHANGED <<notSubVars, description, questionIds>>

\* lines 342-360 and 17-23: the course select changes, and the effect on
\* selectedCourse requests the assignments and resets the selection
SelectCourse ==
    /\ gradePc # "courses"
    /\ \E c \in {courses[i] : i \in 1..Len(courses)} \cup {""} :
        /\ c # selectedCourse
        /\ selectedCourse' = c
        /\ IF c # ""
           THEN /\ asgReqs[c] < MaxAsgReqs
                /\ asgReqs' = [asgReqs EXCEPT ![c] = @ + 1]
                /\ selectedAssignment' = ""
                /\ submissions' = <<>>
                /\ gradeHist' = NoGradeHist
           ELSE UNCHANGED <<asgReqs, selectedAssignment, submissions, gradeHist>>
    /\ gradeEv' = NoGradeEv
    /\ UNCHANGED <<courses, assignments, loading, error, gradePc, reqLog>>
    /\ UNCHANGED <<notSubVars, description, questionIds>>

\* lines 48-64: /api/classroom/assignments/{courseId} comes back
AssignmentsResponse ==
    /\ \E c \in Courses :
        /\ asgReqs[c] > 0
        /\ asgReqs' = [asgReqs EXCEPT ![c] = @ - 1]
        /\ \E resp \in {"ok", "fail"} :
            IF resp = "ok" THEN assignments' = ServerAssignments(c) /\ UNCHANGED error
            ELSE error' = "Failed to load assignments" /\ UNCHANGED assignments
    /\ gradeEv' = NoGradeEv
    /\ UNCHANGED <<courses, selectedCourse, selectedAssignment, submissions, loading,
                   gradePc, reqLog, gradeHist>>
    /\ UNCHANGED <<notSubVars, description, questionIds>>

\* lines 372-392: the assignment select, enabled once a course is selected
SelectAssignment ==
    /\ selectedCourse # ""
    /\ \E a \in {assignments[i].id : i \in 1..Len(assignments)} \cup {""} :
        /\ a # selectedAssignment
        /\ selectedAssignment' = a
    /\ gradeEv' = NoGradeEv
    /\ UNCHANGED <<courses, selectedCourse, assignments, submissions, loading, error,
                   asgReqs, gradePc, reqLog, gradeHist>>
    /\ UNCHANGED <<notSubVars, description, questionIds>>

\* the record of the selected assignment: assignments.find(a => a.id === selectedAssignment)
SelectedAssignmentData ==
    LET found == SelectSeq(assignments, LAMBDA a : a.id = selectedAssignment)
    IN IF found = <<>> THEN <<>> ELSE <<found[1]>>

\* lines 66-82: Get Submissions is clicked (the button is enabled) and the
\* request is sent
FetchSubmissionsClick ==
    /\ gradePc = "idle"
    /\ selectedCourse # "" /\ selectedAssignment # "" /\ ~loading
    /\ loading' = TRUE
    /\ error' = ""
    /\ gradePc' = "submissions"
    /\ gradeEv' = NoGradeEv
    /\ UNCHANGED <<courses, selectedCourse, selectedAssignment, assignments, submissions,
                   asgReqs, reqLog, gradeHist>>
    /\ UNCHANGED <<notSubVars, description, questionIds>>

\* the return of line 93 leaving without the finally block
LoadingKeptOn401(outcome) == outcome = "401"

\* lines 109-111: finally { setLoading(false) }, on every way out
LoadingAfterSubmissions(outcome) == FALSE

\* lines 84-111: /api/classroom/submissions comes back
SubmissionsResponse ==
    /\ gradePc = "submissions"
    /\ gradePc' = "idle"
    /\ \/ /\ error' = "Authentication expired"
          /\ loading' = LoadingAfterSubmissions("401")
          /\ UNCHANGED <<submissions, gradeHist>>
       \/ /\ error' = "Failed to load submissions"
          /\ loading' = LoadingAfterSubmissions("failed")
          /\ UNCHANGED <<submissions, gradeHist>>
       \/ \E data \in InjectiveSeqs(SubIds, MaxSubs) :
            /\ submissions' = [i \in 1..Len(data) |-> FreshSubmission(data[i])]
            /\ loading' = LoadingAfterSubmissions("ok")
            /\ gradeHist' = NoGradeHist
            /\ UNCHANGED error
    /\ gradeEv' = NoGradeEv
    /\ UNCHANGED <<courses, selectedCourse, selectedAssignment, assignments, asgReqs,
                   reqLog>>
    /\ UNCHANGED <<notSubVars, description, questionIds>>

\* lines 173-246: Grade Submissions is clicked (the button is enabled); the
\* run goes up to its first await, the question lookup
GradeClick ==
    /\ gradePc = "idle"
    /\ selectedCourse # "" /\ selectedAssignment # "" /\ ~loading /\ submissions # <<>>
    /\ IF assignments = <<>>
       THEN /\ error' = "No assignment data available for grading"
            /\ gradeEv' = [NoGradeEv EXCEPT !.op = "nodata"]
            /\ UNCHANGED <<loading, gradePc, reqLog, description, questionIds>>
       ELSE IF SelectedAssignmentData = <<>>
       THEN /\ error' = "Failed to grade submissions: Selected assignment not found"
            /\ gradeEv' = [NoGradeEv EXCEPT !.op = "notfound"]
            /\ UNCHANGED <<loading, gradePc, reqLog, description, questionIds>>
       ELSE /\ loading' = TRUE
            /\ error' = ""
            /\ description' = SelectedAssignmentData[1].description
            /\ questionIds' = ExtractQuestionIds(SelectedAssignmentData[1].description)
            /\ gradePc' = IF UseIdLookup(questionIds') THEN "lookupIds" ELSE "lookupTitle"
            /\ reqLog' = IF UseIdLookup(questionIds')
                         THEN {"get-questions-by-ids"}
                         ELSE {"get-assignment-questions"}
            /\ gradeEv' = [NoGradeEv EXCEPT !.op = "parsed", !.ids = questionIds',
                                            !.sent = reqLog']
    /\ UNCHANGED <<courses, selectedCourse, selectedAssignment, assignments, submissions,
                   asgReqs, gradeHist>>
    /\ UNCHANGED notSubVars

\* lines 300-302: the run of handleGradeSubmissions is over; its locals are gone
RunEnds ==
    /\ loading' = FALSE
    /\ gradePc' = "idle"
    /\ reqLog' = {}
    /\ description' = <<>>
    /\ questionIds' = <<>>

\* lines 227-269 and 297-302: the question lookup comes back; the grading
\* request is sent when questions were found
LookupResponse ==
    /\ gradePc \in {"lookupIds", "lookupTitle"}
    /\ \E resp \in LookupOutcomes :
        IF resp.kind # "ok"
        THEN /\ error' = "Failed to grade submissions: Failed to fetch assignment questions"
             /\ RunEnds
             /\ gradeEv' = [NoGradeEv EXCEPT !.op = "lookup", !.lookup = resp,
                                             !.ids = questionIds, !.sent = reqLog]
        ELSE IF ~QuestionsFound(resp)
        THEN /\ error' = "Failed to grade submissions: No questions found for this assignment"
             /\ RunEnds
             /\ gradeEv' = [NoGradeEv EXCEPT !.op = "lookup", !.lookup = resp,
                                             !.ids = questionIds, !.sent = reqLog]
        ELSE /\ gradePc' = "grading"
             /\ reqLog' = reqLog \cup {"grade-submissions"}
             /\ gradeEv' = [NoGradeEv EXCEPT !.op = "lookup", !.lookup = resp,
                                             !.ids = questionIds, !.sent = reqLog']
             /\ UNCHANGED <<error, loading, description, questionIds>>
    /\ UNCHANGED <<courses, selectedCourse, selectedAssignment, assignments, submissions,
                   asgReqs, gradeHist>>
    /\ UNCHANGED notSubVars

\* lines 271-302: /api/classroom/grade-submissions comes back
GradeResponse ==
    /\ gradePc = "grading"
    /\ RunEnds
    /\ \/ /\ error' = "Failed to grade submissions"
          /\ gradeEv' = [NoGradeEv EXCEPT !.op = "gradefailed", !.ids = questionIds,
                                          !.sent = reqLog]
          /\ UNCHANGED <<submissions, gradeHist>>
       \/ \E outs \in [1..Len(ServerBatch) -> Grades \cup {"fail"}] :
            LET batch == ServerBatch
                result == ServerGradeBatch(batch, outs)
            IN /\ submissions' = ApplyGrades(submissions, result.results)
               /\ gradeHist' = [set |-> TRUE, results |-> result.results]
               /\ gradeEv' = [op |-> "graded", lookup |-> NoLookup,
                              ids |-> questionIds, sent |-> reqLog,
                              results |-> result.results, errors |-> result.errors,
                              total |-> result.total_submissions,
                              graded |-> result.graded_count,
                              batch |-> batch, outs |-> outs, before |-> submissions,
                              repeat |-> gradeHist.set /\ gradeHist.results = result.results,
                              second |-> gradeHist.set]
               /\ UNCHANGED error
    /\ UNCHANGED <<courses, selectedCourse, selectedAssignment, assignments, asgReqs>>
    /\ UNCHANGED notSubVars

NextSub ==
    \/ CoursesResponse
    \/ SelectCourse
    \/ AssignmentsResponse
    \/ SelectAssignment
    \/ FetchSubmissionsClick
    \/ SubmissionsResponse
    \/ GradeClick
    \/ LookupResponse
    \/ GradeResponse

SpecSub == InitSub /\ [][NextSub]_vars

\* the view with the courses loaded, a course selected and its assignments
\* received: the state in which submissions are fetched and graded
InitGrade ==
    /\ AuthIdle
    /\ ParseIdle
    /\ QIdle
    /\ courses = <<"c1", "c2">>
    /\ selectedCourse \in Courses
    /\ selectedAssignment = ""
    /\ assignments = ServerAssignments(selectedCourse)
    /\ submissions = <<>>
    /\ loading = FALSE
    /\ error = ""
    /\ asgReqs = [c \in Courses |-> 0]
    /\ gradePc = "idle"
    /\ reqLog = {}
    /\ gradeHist = NoGradeHist
    /\ gradeEv = NoGradeEv

NextGrade ==
    \/ SelectAssignment
    \/ FetchSubmissionsClick
    \/ SubmissionsResponse
    \/ GradeClick
    \/ LookupResponse
    \/ GradeResponse

SpecGrade == InitGrade /\ [][NextGrade]_vars

\* ------------------------------------------ claims about the grading run

\* a run of handleGradeSubmissions that got as far as parsing is in flight,
\* or its last step was the previous step
GradeRunSeen ==
    \/ gradePc \in {"lookupIds", "lookupTitle", "grading"}
    \/ gradeEv.op \in {"lookup", "gradefailed", "graded"}

\* the identifiers that run parsed and the requests it has sent
GradeRunIds ==
    IF gradePc \in {"lookupIds", "lookupTitle", "grading"} THEN questionIds ELSE gradeEv.ids

GradeRunSent ==
    IF gradePc \in {"lookupIds", "lookupTitle", "grading"} THEN reqLog ELSE gradeEv.sent

\* C4: the title lookup is requested only when no marker was parsed: with at
\* least one marker it is never requested in the run, also when the lookup by
\* ids fails or finds nothing; with none it is requested and the lookup by
\* ids is not.
C4_FallbackOnlyWithoutMarkers ==
    GradeRunSeen =>
        /\ Len(GradeRunIds) >= 1 => "get-assignment-questions" \notin GradeRunSent
        /\ Len(GradeRunIds) = 0 =>
              /\ "get-assignment-questions" \in GradeRunSent
              /\ "get-questions-by-ids" \notin GradeRunSent

\* two markers were parsed and the lookup by ids came back without questions
C4_Witness ==
    /\ gradeEv.op = "lookup"
    /\ Len(gradeEv.ids) = 2
    /\ gradeEv.lookup.kind = "ok" /\ gradeEv.lookup.questions = "empty"
    /\ gradeEv.sent = {"get-questions-by-ids"}

\* the lookup answered, and not with questions
LookupUnresolved(resp) ==
    /\ resp.kind = "ok"
    /\ resp.status # "success" \/ resp.questions \in {"absent", "empty"}

\* C7: when the lookup answers with a status other than success, without a
\* questions field or with an empty list, the run ends with an error message
\* shown and the grading request is never sent.
C7_NoQuestionsIsAnError ==
    (gradeEv.op = "lookup" /\ LookupUnresolved(gradeEv.lookup)) =>
        /\ error # ""
        /\ "grade-submissions" \notin gradeEv.sent
        /\ gradePc = "idle"
        /\ ~loading

\* the title lookup answered success with an empty question list
C7_Witness ==
    /\ gradeEv.op = "lookup"
    /\ gradeEv.lookup = [kind |-> "ok", status |-> "success", questions |-> "empty"]
    /\ gradeEv.sent = {"get-assignment-questions"}
    /\ error # ""

\* the result entries for one submission id
EntriesFor(results, id) == { r \in 1..Len(results) : results[r].submission_id = id }

\* C8: after a successful grading response each displayed submission that
\* has a result entry with its id carries that entry's grading_result and
\* isGraded, whatever the order of the results; a submission without an
\* entry is untouched; order and identity of the list are unchanged.
C8_MatchedBySubmissionId ==
    gradeEv.op = "graded" =>
        /\ Len(submissions) = Len(gradeEv.before)
        /\ \A i \in 1..Len(submissions) :
            /\ submissions[i].id = gradeEv.before[i].id
            /\ IF EntriesFor(gradeEv.results, submissions[i].id) # {}
               THEN /\ submissions[i].isGraded
                    /\ \E r \in EntriesFor(gradeEv.results, submissions[i].id) :
                          submissions[i].aiGrade = gradeEv.results[r].grading_result
               ELSE submissions[i] = gradeEv.before[i]

\* the displayed order is the reverse of the order of the results, and the
\* two results differ
C8_Witness ==
    /\ gradeEv.op = "graded"
    /\ Len(gradeEv.results) >= 2 /\ Len(submissions) >= 2
    /\ gradeEv.results[1].submission_id = submissions[2].id
    /\ gradeEv.results[2].submission_id = submissions[1].id
    /\ gradeEv.results[1].grading_result # gradeEv.results[2].grading_result

\* C9: in a batch where some submissions fail, total_submissions is the size
\* of the batch, graded_count the number scored, each failing submission is
\* in the error list and in no result entry, the others are graded, and the
\* client does not mark a submission without a result entry as graded.
C9_PartialBatchFailure ==
    gradeEv.op = "graded" =>
        /\ gradeEv.total = Len(gradeEv.batch)
        /\ gradeEv.graded =
              Cardinality({ k \in 1..Len(gradeEv.batch) : gradeEv.outs[k] # "fail" })
        /\ \A k \in 1..Len(gradeEv.batch) :
              IF gradeEv.outs[k] = "fail"
              THEN /\ \E e \in 1..Len(gradeEv.errors) : gradeEv.errors[e] = gradeEv.batch[k]
                   /\ EntriesFor(gradeEv.results, gradeEv.batch[k]) = {}
              ELSE /\ \E r \in EntriesFor(gradeEv.results, gradeEv.batch[k]) :
                          gradeEv.results[r].grading_result = gradeEv.outs[k]
                   /\ \A e \in 1..Len(gradeEv.errors) : gradeEv.errors[e] # gradeEv.batch[k]
        /\ \A i \in 1..Len(submissions) :
              EntriesFor(gradeEv.results, submissions[i].id) = {} =>
                  submissions[i] = gradeEv.before[i]

\* one submission of the batch failed and one was scored; the failed one is
\* displayed and shows no grade
C9_Witness ==
    /\ gradeEv.op = "graded"
    /\ gradeEv.graded >= 1 /\ gradeEv.graded < gradeEv.total
    /\ \E i \in 1..Len(submissions) :
          /\ \E e \in 1..Len(gradeEv.errors) : gradeEv.errors[e] = submissions[i].id
          /\ ~submissions[i].isGraded
    /\ \E i \in 1..Len(submissions) : submissions[i].isGraded

\* C10: a second grading run with the same response on the same list leaves
\* every submission as the first run left it, and after any later run a
\* submission with a result entry carries that run's grading_result alone.
C10_RegradeOverwrites ==
    /\ (gradeEv.op = "graded" /\ gradeEv.repeat) => submissions = gradeEv.before
    /\ (gradeEv.op = "graded" /\ gradeEv.second) =>
          \A i \in 1..Len(submissions) :
              \A r \in EntriesFor(gradeEv.results, submissions[i].id) :
                  submissions[i].aiGrade = gradeEv.results[r].grading_result

\* the second of two runs with the same response, on a list with a graded
\* and displayed submission
C10_Witness ==
    /\ gradeEv.op = "graded"
    /\ gradeEv.repeat
    /\ \E i \in 1..Len(submissions) :
          /\ gradeEv.before[i].isGraded
          /\ EntriesFor(gradeEv.results, submissions[i].id) # {}

\* ------------------------------------------------ auth.js and the 401 status

Statuses == {"200", "401", "500"}

\* auth.js line 6: response.status === 401
IsAuthError(status) == status = "401"

\* auth.js line 10: window.location.href = '/' loads the page anew; every
\* component state is the constructed one again and the requests in flight
\* are gone; localStorage, the history and the server's store persist
PageLoaded(to) ==
    /\ pathname' = to
    /\ urlAuthToken' = NoToken
    /\ tokenEntry' = EntryLeftBehind
    /\ isAuthenticated' = FALSE
    /\ authChecked' = FALSE
    /\ mounted' = FALSE
    /\ runs' = [r \in 1..MaxRuns |-> IdleRun]
    /\ courses' = <<>>
    /\ selectedCourse' = ""
    /\ selectedAssignment' = ""
    /\ assignments' = <<>>
    /\ submissions' = <<>>
    /\ loading' = FALSE
    /\ error' = ""
    /\ asgReqs' = [c \in Courses |-> 0]
    /\ gradePc' = "unmounted"
    /\ reqLog' = {}
    /\ gradeHist' = NoGradeHist
    /\ gradeEv' = NoGradeEv
    /\ description' = <<>>
    /\ questionIds' = <<>>
    /\ currentStep' = "initial"
    /\ assignmentQuestions' = <<>>
    /\ isLoading' = FALSE
    /\ loadingRubricIndex' = 0
    /\ isModalOpen' = FALSE
    /\ customQuestionIndex' = 0
    /\ questionsToAssign' = <<>>
    /\ assignmentTopic' = ""
    /\ isAssignmentModalOpen' = FALSE
    /\ modal' = ModalClosed
    /\ qops' = EmptyBag
    /\ qEv' = NoQEv
    /\ UNCHANGED <<parts, parsePc, exchangesSent, questionStore, storeAnswers,
                   clicks>>

\* auth.js lines 5-29: a caller awaits authFetch(url) and the response
\* arrives; on an authentication error handleAuthError clears localStorage,
\* sends the browser to '/' and authFetch throws; otherwise the response is
\* returned
AuthFetchResponse ==
    /\ mounted /\ authChecked /\ isAuthenticated
    /\ \E status \in Statuses :
        IF IsAuthError(status)
        THEN /\ storedToken' = NoToken
             /\ PageLoaded("/")
             /\ authEv' = [op |-> "authFetch", cookie |-> status,
                           stored |-> storedToken, verify |-> "thrown"]
        ELSE /\ authEv' = [op |-> "authFetch", cookie |-> status,
                           stored |-> storedToken, verify |-> "returned"]
             /\ UNCHANGED <<pathname, urlAuthToken, storedToken, isAuthenticated,
                            authChecked, mounted, runs, tokenEntry, exchangesSent>>
             /\ UNCHANGED notAuthVars

\* the submissions view of an authenticated client that may hold a stored
\* token, mounted and waiting for the courses (Submissions.jsx lines 13-15)
InitExpired ==
    /\ ParseIdle
    /\ QIdle
    /\ pathname = "/submissions"
    /\ urlAuthToken = NoToken
    /\ storedToken \in {NoToken, "old", "new"}
    /\ isAuthenticated = TRUE
    /\ authChecked = TRUE
    /\ mounted = TRUE
    /\ runs = [r \in 1..MaxRuns |-> IdleRun]
    /\ tokenEntry = NoEntry
    /\ exchangesSent = (IF storedToken = "new" THEN 1 ELSE 0)
    /\ authEv = NoAuthEv
    /\ courses = <<>>
    /\ selectedCourse = ""
    /\ selectedAssignment = ""
    /\ assignments = <<>>
    /\ submissions = <<>>
    /\ loading = FALSE
    /\ error = ""
    /\ asgReqs = [c \in Courses |-> 0]
    /\ gradePc = "courses"
    /\ reqLog = {}
    /\ gradeHist = NoGradeHist
    /\ gradeEv = NoGradeEv

NextExpired ==
    \/ CoursesResponse
    \/ SelectCourse
    \/ AssignmentsResponse
    \/ SelectAssignment
    \/ FetchSubmissionsClick
    \/ SubmissionsResponse
    \/ AuthFetchResponse

SpecExpired == InitExpired /\ [][NextExpired]_vars

\* C14: a 401 makes the caller drop its stored token: authFetch clears
\* localStorage, goes to '/' and throws on status 401, and on any other
\* status returns the response and leaves localStorage as it was; and after
\* a course, submission or assignment-modal request was answered with 401,
\* no session_token is stored.
C14_Status401DropsToken ==
    /\ (authEv.op = "authFetch" /\ authEv.cookie = "401") =>
          (storedToken = NoToken /\ pathname = "/" /\ authEv.verify = "thrown")
    /\ (authEv.op = "authFetch" /\ authEv.cookie # "401") =>
          (storedToken = authEv.stored /\ authEv.verify = "returned")
    /\ error = "Authentication expired" => storedToken = NoToken
    /\ modal.error = "Authentication expired" => storedToken = NoToken

\* ------------------------------------- App.jsx: preparing the questions

\* a question without identifier (id undefined)
NoId == 0

\* what the generation endpoints answer with: the code never reads the text
\* or the marks, so one answer per endpoint stands for all of them
GeneratedQuestion == [question |-> "generated", marks |-> 5]
RegeneratedQuestion == [question |-> "regenerated", marks |-> 10]
CustomQuestion == [question |-> "custom", marks |-> 15]

\* what /api/generate-evaluation-rubrics answers for a question: the rubric
\* is told apart by the text it was requested for
RubricFor(q) == q.question

\* the objects of the lists are told apart by oid: a list copied with
\* [...assignmentQuestions] holds the same objects, and an assignment to
\* .loading of one of them shows in every list that holds it. An object stays
\* in the row it was made for, so an oid is told apart within its row only.
Oids == 1..(MaxOps + 3)

Closures(ops) == {op.closure : op \in BagToSet(ops)}

OidsOf(list, i) == IF i \in 1..Len(list) THEN {list[i].oid} ELSE {}

\* the object identities in use in row i
UsedOids(i) == OidsOf(assignmentQuestions, i) \cup OidsOf(questionsToAssign, i)
               \cup UNION {OidsOf(c, i) : c \in Closures(qops)}

\* an object identity not in use in row i
FreshOid(i) == CHOOSE o \in Oids \ UsedOids(i) : \A x \in Oids \ UsedOids(i) : o <= x

\* { ...fields, loading: false } and the like: a new object
NewQuestion(oid, id, content, rubrics, isLoading_) ==
    [oid |-> oid, id |-> id, question |-> content.question, marks |-> content.marks,
     rubrics |-> rubrics, loading |-> isLoading_]

\* list[index].loading = value for the object oid of row index, seen through
\* the list `other`
WithLoading(other, index, oid, value) ==
    [i \in 1..Len(other) |->
        IF i = index /\ other[i].oid = oid
        THEN [other[i] EXCEPT !.loading = value] ELSE other[i]]

\* the bag of the F(op), op in the bag ops
MapBag(ops, F(_)) ==
    LET S == BagToSet(ops)
    IN [o \in {F(op) : op \in S} |->
            LET from == {op \in S : F(op) = o}
                count[T \in SUBSET from] ==
                    IF T = {} THEN 0
                    ELSE LET x == CHOOSE x \in T : TRUE
                         IN ops[x] + count[T \ {x}]
            IN count[from]]

\* the same assignment seen through the closures of the operations in flight
OpsWithLoading(ops, index, oid, value) ==
    MapBag(ops, LAMBDA op :
                  [op EXCEPT !.closure = WithLoading(op.closure, index, oid, value)])

\* an operation in flight: the handler, its index argument, the
\* assignmentQuestions of the render it was created in, the request body, and
\* (history) the rows other operations replaced since it started
NoOp == [kind |-> "none", index |-> 0, closure |-> <<>>, body |-> <<>>, peers |-> {},
         detached |-> FALSE, rubricPeers |-> {}]

StartOp(ops, op) == ops (+) SetToBag({op})

EndOp(ops, op) == ops (-) SetToBag({op})

\* what a question is apart from the client's row state
Content(q) == [id |-> q.id, question |-> q.question, marks |-> q.marks,
               rubrics |-> q.rubrics]

Contents(list) == [i \in 1..Len(list) |-> Content(list[i])]

\* lines 236-242: the effect on the pathname and the number of questions
StepAfterEffect(step, path, list) ==
    IF path = "/questions" /\ Len(list) > 0 THEN "questions_generated"
    ELSE IF path = "/home" THEN "initial"
    ELSE step

\* the operations in flight after one of them replaced row `index`
OpsWithPeer(ops, index) == MapBag(ops, LAMBDA op : [op EXCEPT !.peers = @ \cup {index}])

\* the operations in flight after the whole list was replaced
OpsWithoutPeers(ops) == MapBag(ops, LAMBDA op : [op EXCEPT !.peers = {}])

\* lines 244-254 (and 308-309, MainContent 46-48 and 94-96): Generate
\* Assignments or Generate All Again is clicked and /api/generate-questions
\* is requested
GenerateClick ==
    /\ mounted /\ authChecked /\ isAuthenticated
    /\ \/ currentStep = "initial" /\ ~isLoading
       \/ currentStep = "questions_generated"
    /\ BagCardinality(qops) < MaxOps
    /\ clicks < MaxClicks
    /\ clicks' = clicks + 1
    /\ isLoading' = TRUE
    /\ qops' = StartOp(qops, [NoOp EXCEPT !.kind = "generate"])
    /\ qEv' = NoQEv
    /\ UNCHANGED <<currentStep, assignmentQuestions, loadingRubricIndex, isModalOpen,
                   customQuestionIndex, questionsToAssign, assignmentTopic,
                   isAssignmentModalOpen, modal, questionStore, storeAnswers>>
    /\ UNCHANGED <<authVars, notQVars>>

\* line 256: data.questions.map(q => ({ ...q, loading: false, rubrics: null }))
GeneratedList(n) ==
    [i \in 1..n |-> NewQuestion(FreshOid(i), NoId, GeneratedQuestion, "none", FALSE)]

\* line 261: setAssignmentQuestions([]) of the catch block
ListAfterFailedGenerate(held) == <<>>

\* lines 255-264: /api/generate-questions comes back: with n questions, with
\* a body that has no questions, or the request throws
GenerateResponse ==
    \E op \in BagToSet(qops) :
      /\ op.kind = "generate"
      /\ \E outcome \in {"questions", "noquestions", "throw"}, n \in 1..MaxQuestions :
          /\ outcome # "questions" => n = 1
          /\ assignmentQuestions' =
                IF outcome = "questions" THEN GeneratedList(n)
                ELSE IF outcome = "noquestions" THEN <<>>
                ELSE ListAfterFailedGenerate(assignmentQuestions)
          /\ IF outcome = "throw"
             THEN /\ currentStep' = StepAfterEffect(currentStep, pathname,
                                                     assignmentQuestions')
                  /\ UNCHANGED <<pathname, urlAuthToken, tokenEntry, runs>>
             ELSE \* lines 258-259: setCurrentStep, navigate('/questions')
                  /\ currentStep' = StepAfterEffect("questions_generated", "/questions",
                                                     assignmentQuestions')
                  /\ pathname' = "/questions"
                  /\ urlAuthToken' = NoToken
                  /\ tokenEntry' = EntryLeftBehind
                  /\ runs' = InFlight(AfterNavigate(runs, "/questions", authChecked))
          /\ qEv' = [NoQEv EXCEPT !.op = "generate", !.outcome = outcome,
                                  !.heldAny = (assignmentQuestions # <<>>),
                                  !.heldKept = (Contents(assignmentQuestions')
                                                = Contents(assignmentQuestions))]
      /\ isLoading' = FALSE
      /\ qops' = OpsWithoutPeers(EndOp(qops, op))
      /\ UNCHANGED <<loadingRubricIndex, isModalOpen, customQuestionIndex,
                     questionsToAssign, assignmentTopic, isAssignmentModalOpen, modal,
                     questionStore, storeAnswers, clicks>>
      /\ UNCHANGED <<storedToken, isAuthenticated, authChecked, mounted, exchangesSent,
                     authEv>>
      /\ UNCHANGED notQVars

\* MainContent lines 70-75: the row's buttons are shown and enabled
RowEnabled(i) ==
    /\ mounted /\ authChecked /\ isAuthenticated
    /\ currentStep = "questions_generated"
    /\ i \in 1..Len(assignmentQuestions)
    /\ ~assignmentQuestions[i].loading

\* lines 288-290 and 348-350: newQuestions[index].loading = true on a copy of
\* the list, and the request of the operation is sent
StartRowOp(kind, i) ==
    /\ BagCardinality(qops) < MaxOps
    /\ assignmentQuestions' =
          WithLoading(assignmentQuestions, i, assignmentQuestions[i].oid, TRUE)
    /\ questionsToAssign' =
          WithLoading(questionsToAssign, i, assignmentQuestions[i].oid, TRUE)
    /\ qops' = StartOp(OpsWithLoading(qops, i, assignmentQuestions[i].oid, TRUE),
                       [NoOp EXCEPT !.kind = kind, !.index = i,
                                    !.closure = assignmentQuestions'])
    /\ qEv' = NoQEv

\* the row i of the list `after` is the row i of `before`
SameRow(before, after, i) ==
    i \in 1..Len(before) /\ i \in 1..Len(after) /\ after[i] = before[i]

\* what the completion of a row operation did (history): `held` is the list
\* it replaced, `after` the list it set, op.closure the list it was created with
RowOpEvent(op, outcome, held, after) ==
    [NoQEv EXCEPT
        !.op = op.kind, !.index = op.index, !.outcome = outcome,
        !.hadIds = (op.closure[op.index].id # NoId),
        !.idsKept = /\ Len(after) = Len(op.closure)
                    /\ \A k \in 1..Len(op.closure) : after[k].id = op.closure[k].id,
        !.rowKept = /\ Content(after[op.index]) = Content(op.closure[op.index])
                    /\ ~after[op.index].loading,
        !.othersKept = /\ Len(after) = Len(held)
                       /\ \A k \in 1..Len(held) : k # op.index => SameRow(held, after, k),
        !.hadPeers = (op.peers \ {op.index} # {}),
        !.peersKept = \A k \in op.peers \ {op.index} : SameRow(held, after, k)]

\* lines 299-301 and 361-364: updatedQuestions = [...assignmentQuestions] of
\* the closure, updatedQuestions[index] = the new object
ListWithRow(closure, i, q) == [closure EXCEPT ![i] = q]

\* lines 299-301 and 361-364: the row's request was answered with a body,
\* which becomes the row: { ...body, loading: false }
RowOpSucceeded(op, content, outcome) ==
    LET q == NewQuestion(FreshOid(op.index), NoId, content, "none", FALSE)
    IN /\ assignmentQuestions' = ListWithRow(op.closure, op.index, q)
       /\ qops' = OpsWithPeer(EndOp(qops, op), op.index)
       /\ qEv' = RowOpEvent(op, outcome, assignmentQuestions, assignmentQuestions')
       /\ UNCHANGED questionsToAssign

\* lines 302-306 and 368-374: the catch block: updatedQuestions[index].loading
\* = false on a copy of the closure's list
RowOpFailed(op, outcome) ==
    LET oid == op.closure[op.index].oid
    IN /\ assignmentQuestions' = WithLoading(op.closure, op.index, oid, FALSE)
       /\ questionsToAssign' = WithLoading(questionsToAssign, op.index, oid, FALSE)
       /\ qops' = OpsWithLoading(EndOp(qops, op), op.index, oid, FALSE)
       /\ qEv' = RowOpEvent(op, outcome, assignmentQuestions, assignmentQuestions')

RowOpFrame ==
    /\ UNCHANGED <<currentStep, isLoading, loadingRubricIndex, assignmentTopic,
                   isAssignmentModalOpen, modal, questionStore, storeAnswers>>
    /\ UNCHANGED <<authVars, notQVars>>

\* lines 286-297: Generate Again of row i is clicked
RegenerateClick ==
    \E i \in 1..MaxQuestions :
      /\ RowEnabled(i)
      /\ clicks < MaxClicks
      /\ clicks' = clicks + 1
      /\ StartRowOp("regenerate", i)
      /\ UNCHANGED <<isModalOpen, customQuestionIndex>>
      /\ RowOpFrame

\* lines 298-307: /api/regenerate-question comes back with a question, or
\* the request throws
RegenerateResponse ==
    \E op \in BagToSet(qops) :
      /\ op.kind = "regenerate"
      /\ \/ RowOpSucceeded(op, RegeneratedQuestion, "ok")
         \/ RowOpFailed(op, "throw")
      /\ UNCHANGED <<isModalOpen, customQuestionIndex, clicks>>
      /\ RowOpFrame

\* lines 339-342: Custom Input of row i is clicked
CustomInputClick ==
    \E i \in 1..MaxQuestions :
      /\ RowEnabled(i)
      /\ clicks < MaxClicks
      /\ clicks' = clicks + 1
      /\ customQuestionIndex' = i
      /\ isModalOpen' = TRUE
      /\ qEv' = NoQEv
      /\ UNCHANGED <<assignmentQuestions, questionsToAssign, qops>>
      /\ RowOpFrame

\* lines 462 and 510: Cancel of the custom input modal
CustomInputCancel ==
    /\ isModalOpen
    /\ isModalOpen' = FALSE
    /\ qEv' = NoQEv
    /\ UNCHANGED <<assignmentQuestions, questionsToAssign, qops, customQuestionIndex,
                   clicks>>
    /\ RowOpFrame

\* CustomInputModal lines 9-12 and App.jsx lines 344-357: Generate & Update
\* is clicked; when the list no longer has the row, line 349 throws a
\* TypeError before the request is made
CustomQuestionSubmit ==
    /\ isModalOpen
    /\ isModalOpen' = FALSE
    /\ IF customQuestionIndex \in 1..Len(assignmentQuestions)
       THEN StartRowOp("custom", customQuestionIndex)
       ELSE /\ qEv' = NoQEv
            /\ UNCHANGED <<assignmentQuestions, questionsToAssign, qops>>
    /\ UNCHANGED <<customQuestionIndex, clicks>>
    /\ RowOpFrame

\* lines 358-375: /api/generate-custom-question comes back: with a question,
\* with a body without question, or the request throws
CustomQuestionResponse ==
    \E op \in BagToSet(qops) :
      /\ op.kind = "custom"
      /\ \/ RowOpSucceeded(op, CustomQuestion, "ok")
         \/ RowOpFailed(op, "noquestion")
         \/ RowOpFailed(op, "throw")
      /\ UNCHANGED <<isModalOpen, customQuestionIndex, clicks>>
      /\ RowOpFrame

\* the rubric requests in flight after one of them set the rubric of row
\* `index` (history)
OpsWithRubricPeer(ops, index) ==
    MapBag(ops, LAMBDA op : IF op.kind = "rubrics"
                            THEN [op EXCEPT !.rubricPeers = @ \cup {index}] ELSE op)

\* lines 313-321 (MainContent 76-82): Evaluation Metrics of row i is clicked
GenerateRubricsClick ==
    \E i \in 1..MaxQuestions :
      /\ RowEnabled(i)
      /\ loadingRubricIndex # i
      /\ assignmentQuestions[i].rubrics = "none"
      /\ BagCardinality(qops) < MaxOps
      /\ clicks < MaxClicks
      /\ clicks' = clicks + 1
      /\ loadingRubricIndex' = i
      /\ qops' = StartOp(qops, [NoOp EXCEPT !.kind = "rubrics", !.index = i,
                                            !.closure = assignmentQuestions])
      /\ qEv' = NoQEv
      /\ UNCHANGED <<currentStep, assignmentQuestions, isLoading, isModalOpen,
                     customQuestionIndex, questionsToAssign, assignmentTopic,
                     isAssignmentModalOpen, modal, questionStore, storeAnswers>>
      /\ UNCHANGED <<authVars, notQVars>>

\* lines 323-331: /api/generate-evaluation-rubrics comes back: with a
\* rubric, with a body without rubric, or the request throws
RubricsResponse ==
    \E op \in BagToSet(qops) :
      /\ op.kind = "rubrics"
      /\ \E outcome \in {"ok", "norubric", "throw"} :
          /\ IF outcome = "throw"
             THEN UNCHANGED assignmentQuestions
             ELSE assignmentQuestions' =
                    ListWithRow(op.closure, op.index,
                        [op.closure[op.index] EXCEPT
                            !.oid = FreshOid(op.index),
                            !.rubrics = IF outcome = "ok"
                                        THEN RubricFor(op.closure[op.index])
                                        ELSE "none"])
          /\ qEv' = [NoQEv EXCEPT
                        !.op = "rubrics", !.index = op.index, !.outcome = outcome,
                        !.hadPeers = (op.rubricPeers \ {op.index} # {}),
                        !.peersKept = \A k \in op.rubricPeers \ {op.index} :
                                        SameRow(assignmentQuestions,
                                                assignmentQuestions', k)]
          /\ qops' = IF outcome = "ok" THEN OpsWithRubricPeer(EndOp(qops, op), op.index)
                     ELSE EndOp(qops, op)
      /\ loadingRubricIndex' = 0
      /\ UNCHANGED <<currentStep, isLoading, isModalOpen, customQuestionIndex,
                     questionsToAssign, assignmentTopic, isAssignmentModalOpen, modal,
                     questionStore, storeAnswers, clicks>>
      /\ UNCHANGED <<authVars, notQVars>>

\* the records the Question Store returns for the ids 1..n
PersistedList(n) ==
    [i \in 1..n |-> NewQuestion(i, i, GeneratedQuestion, RubricFor(GeneratedQuestion), FALSE)]

\* an authenticated client on /home before any generation, or on /questions
\* holding questions that handleProceed persisted (the assignment modal was
\* closed again)
InitEdit ==
    /\ ParseIdle
    /\ SubIdle
    /\ urlAuthToken = NoToken
    /\ storedToken = NoToken
    /\ isAuthenticated = TRUE
    /\ authChecked = TRUE
    /\ mounted = TRUE
    /\ runs = [r \in 1..MaxRuns |-> IdleRun]
    /\ tokenEntry = NoEntry
    /\ exchangesSent = 0
    /\ authEv = NoAuthEv
    /\ isLoading = FALSE
    /\ loadingRubricIndex = 0
    /\ isModalOpen = FALSE
    /\ customQuestionIndex = 0
    /\ isAssignmentModalOpen = FALSE
    /\ modal = ModalClosed
    /\ qops = EmptyBag
    /\ qEv = NoQEv
    /\ clicks = 0
    /\ \/ /\ pathname = "/home"
          /\ currentStep = "initial"
          /\ assignmentQuestions = <<>>
          /\ questionsToAssign = <<>>
          /\ assignmentTopic = ""
          /\ questionStore = <<>>
          /\ storeAnswers = {}
       \/ \E n \in 1..MaxQuestions :
          /\ pathname = "/questions"
          /\ currentStep = "questions_generated"
          /\ assignmentQuestions = PersistedList(n)
          /\ questionsToAssign = PersistedList(n)
          /\ assignmentTopic = "topic"
          /\ questionStore = Contents(PersistedList(n))
          /\ storeAnswers = {Contents(PersistedList(n))}

NextEdit ==
    \/ GenerateClick
    \/ GenerateResponse
    \/ RegenerateClick
    \/ RegenerateResponse
    \/ CustomInputClick
    \/ CustomInputCancel
    \/ CustomQuestionSubmit
    \/ CustomQuestionResponse

SpecEdit == InitEdit /\ [][NextEdit]_vars

RowOps == {"regenerate", "custom"}

\* C15: regenerate and custom input keep the identifiers: when the question
\* at index i carried an id before the operation, then after the operation
\* completed successfully the list has the length it had, and index i and
\* every other index carry the id they carried before.
C15_RowOpKeepsIds ==
    (qEv.op \in RowOps /\ qEv.outcome = "ok" /\ qEv.hadIds) => qEv.idsKept

\* C16: a failure is scoped to the item: when the regenerate or custom-input
\* call for index i failed (the request threw, or the custom-input response
\* had no question), index i keeps its text, marks and rubric with loading
\* false, and every other question of the list is as it was.
C16_FailureScopedToItem ==
    (qEv.op \in RowOps /\ qEv.outcome \in {"throw", "noquestion"}) =>
        (qEv.rowKept /\ qEv.othersKept)

\* C17: batch generation is not rolled back: when a /api/generate-questions
\* call failed, assignmentQuestions still holds the questions it held.
C17_FailedGenerateKeepsQuestions ==
    (qEv.op = "generate" /\ qEv.outcome = "throw") => qEv.heldKept

\* C18: per-item results survive interleaving: when an operation on index i
\* succeeds, the rows that other operations replaced while it was in flight
\* still hold what those operations put there; and once no request is
\* outstanding, no question has loading = true.
C18_ResultsSurviveInterleaving ==
    /\ (qEv.op \in RowOps /\ qEv.outcome = "ok" /\ qEv.hadPeers) => qEv.peersKept
    /\ qops = EmptyBag =>
          \A k \in 1..Len(assignmentQuestions) : ~assignmentQuestions[k].loading

\* ------------------------------ App.jsx handleProceed and AssignmentModal

\* line 380 with some() for every(): one question with rubrics is enough
SomeHaveRubrics(list) == \E k \in 1..Len(list) : list[k].rubrics # "none"

\* line 380: assignmentQuestions.every(q => q.rubrics && q.rubrics.length > 0)
AllHaveRubrics(list) == \A k \in 1..Len(list) : list[k].rubrics # "none"

\* lines 378-394: Proceed is clicked: without rubrics on every question the
\* handler alerts and returns (lines 382-385); with them
\* /api/store-questions is requested with the list of this render
ProceedClick ==
    /\ mounted /\ authChecked /\ isAuthenticated
    /\ currentStep = "questions_generated"
    /\ clicks < MaxClicks
    /\ clicks' = clicks + 1
    /\ IF AllHaveRubrics(assignmentQuestions)
       THEN /\ BagCardinality(qops) < MaxOps
            /\ qops' = StartOp(qops, [NoOp EXCEPT !.kind = "store",
                                                  !.body = Contents(assignmentQuestions)])
            /\ qEv' = [NoQEv EXCEPT !.op = "proceed", !.outcome = "sent"]
       ELSE /\ qops' = qops
            /\ qEv' = [NoQEv EXCEPT !.op = "proceed", !.outcome = "alert"]
    /\ UNCHANGED <<currentStep, assignmentQuestions, isLoading, loadingRubricIndex,
                   isModalOpen, customQuestionIndex, questionsToAssign, assignmentTopic,
                   isAssignmentModalOpen, modal, questionStore, storeAnswers>>
    /\ UNCHANGED <<authVars, notQVars>>

\* the identifiers the Question Store has given out
IdsOf(store) == {store[k].id : k \in 1..Len(store)}

\* the store gives the identifier 1 again
ReusedId(store) == 1

\* spec 4.3: a new stable identifier on first store
NewId(store) == Len(store) + 1

\* the question was stored before
Known(store, q) == q.id # NoId /\ q.id \in IdsOf(store)

\* spec 4.3: persist an array of Question records, assigning each a new
\* identifier on first store, and return the persisted records with
\* identifiers attached; acc holds the store and the records returned so far
RECURSIVE StoreQuestions(_, _)
StoreQuestions(acc, list) ==
    IF list = <<>> THEN acc
    ELSE LET q == Head(list)
             known == Known(acc.store, q)
             rec == [q EXCEPT !.id = IF known THEN q.id ELSE NewId(acc.store)]
         IN StoreQuestions(
                [store |-> IF known
                           THEN [k \in 1..Len(acc.store) |->
                                    IF acc.store[k].id = q.id THEN rec ELSE acc.store[k]]
                           ELSE Append(acc.store, rec),
                 stored |-> Append(acc.stored, rec)],
                Tail(list))

\* the modal is opened whatever the store answered
StoreAcceptedAlways(ok, status, hasStored) == TRUE

\* lines 396 and 402: response.ok, result.status === 'success' and
\* result.stored_questions
StoreAccepted(ok, status, hasStored) == ok /\ status = "success" /\ hasStored

\* the objects parsed from result.stored_questions
StoredList(stored) ==
    [k \in 1..Len(stored) |->
        NewQuestion(FreshOid(k), stored[k].id, stored[k], stored[k].rubrics, FALSE)]

\* AssignmentModal as it is mounted: lines 93-103, fetchCourses is called
ModalMounted == [ModalClosed EXCEPT !.fetching = TRUE]

\* lines 395-417: /api/store-questions comes back: with the stored records,
\* with a status that is not ok, with a body whose status is not 'success',
\* or the request throws
StoreResponse ==
    \E op \in BagToSet(qops) :
      /\ op.kind = "store"
      /\ \E resp \in {"success", "notok", "failed", "throw"} :
          LET res == IF resp = "success"
                     THEN StoreQuestions([store |-> questionStore, stored |-> <<>>],
                                         op.body)
                     ELSE [store |-> questionStore, stored |-> <<>>]
              accepted == /\ resp # "throw"
                          /\ StoreAccepted(resp # "notok",
                                           IF resp = "success" THEN "success" ELSE "error",
                                           resp = "success")
          IN /\ questionStore' = res.store
             /\ storeAnswers' = IF resp = "success"
                                THEN storeAnswers \cup {res.stored} ELSE storeAnswers
             /\ qEv' = [NoQEv EXCEPT !.op = "store", !.outcome = resp,
                                     !.sent = res.stored]
             /\ IF accepted
                THEN /\ assignmentQuestions' = StoredList(res.stored)
                     /\ questionsToAssign' = assignmentQuestions'
                     /\ assignmentTopic' = IF res.stored # <<>> THEN "topic"
                                           ELSE "General Assignment"
                     /\ isAssignmentModalOpen' = TRUE
                     /\ modal' = IF isAssignmentModalOpen THEN modal ELSE ModalMounted
                     /\ currentStep' = StepAfterEffect(currentStep, pathname,
                                                        assignmentQuestions')
                     /\ qops' = OpsWithoutPeers(EndOp(qops, op))
                ELSE /\ qops' = EndOp(qops, op)
                     /\ UNCHANGED <<assignmentQuestions, questionsToAssign,
                                    assignmentTopic, isAssignmentModalOpen, modal,
                                    currentStep>>
      /\ UNCHANGED <<isLoading, loadingRubricIndex, isModalOpen, customQuestionIndex,
                     clicks>>
      /\ UNCHANGED <<authVars, notQVars>>

ModalFrame ==
    /\ UNCHANGED <<currentStep, assignmentQuestions, isLoading, loadingRubricIndex,
                   isModalOpen, customQuestionIndex, questionsToAssign, assignmentTopic,
                   questionStore, storeAnswers, clicks>>
    /\ UNCHANGED <<authVars, notQVars>>

\* the courses /api/classroom/courses answers the modal with
ModalCourses == {"c1"}

\* Login.jsx lines 105-126: /api/classroom/courses comes back to the modal
ModalCoursesResponse ==
    /\ isAssignmentModalOpen
    /\ modal.fetching
    /\ \E resp \in {"ok", "401", "notok"} :
          modal' = [modal EXCEPT
                      !.fetching = FALSE,
                      !.courses = IF resp = "ok" THEN ModalCourses ELSE @,
                      !.error = IF resp = "ok" THEN @
                                ELSE IF resp = "401" THEN "Authentication expired"
                                ELSE "Failed to load courses"]
    /\ qEv' = NoQEv
    /\ UNCHANGED <<isAssignmentModalOpen, qops>>
    /\ ModalFrame

\* Login.jsx lines 188-200: a course, or the empty option, is selected
ModalSelectCourse ==
    /\ isAssignmentModalOpen
    /\ \E c \in modal.courses \cup {""} :
          /\ c # modal.selectedCourse
          /\ modal' = [modal EXCEPT !.selectedCourse = c]
    /\ qEv' = NoQEv
    /\ UNCHANGED <<isAssignmentModalOpen, qops>>
    /\ ModalFrame

\* Login.jsx lines 128-155: Create Assignment is clicked; with a course
\* selected /api/classroom/create-assignment is requested with the questions
\* prop of this render
ModalSubmit ==
    /\ isAssignmentModalOpen
    /\ ~modal.loading
    /\ BagCardinality(qops) < MaxOps
    /\ IF modal.selectedCourse = ""
       THEN /\ modal' = [modal EXCEPT !.error = "Please select a course"]
            /\ qEv' = NoQEv
            /\ UNCHANGED qops
       ELSE /\ modal' = [modal EXCEPT !.loading = TRUE, !.error = ""]
            /\ qops' = StartOp(qops, [NoOp EXCEPT !.kind = "create",
                                                  !.body = Contents(questionsToAssign)])
            /\ qEv' = [NoQEv EXCEPT !.op = "create", !.outcome = "sent",
                                    !.sent = Contents(questionsToAssign)]
    /\ UNCHANGED isAssignmentModalOpen
    /\ ModalFrame

\* the requests of a modal that is no longer rendered: its setLoading and
\* setError do nothing, its onClose still belongs to App
Detached(ops) ==
    MapBag(ops, LAMBDA op : IF op.kind = "create" THEN [op EXCEPT !.detached = TRUE]
                                                  ELSE op)

\* the modal is closed whatever the request was answered with
ModalClosedAfterCreate(open, resp) == FALSE

\* Login.jsx lines 157-163: onClose() is called after an ok response only
ModalOpenAfterCreate(open, resp) == IF resp = "ok" THEN FALSE ELSE open

\* Login.jsx lines 157-169: /api/classroom/create-assignment comes back
CreateResponse ==
    \E op \in BagToSet(qops) :
      /\ op.kind = "create"
      /\ \E resp \in {"ok", "notok", "throw"} :
          /\ qEv' = [NoQEv EXCEPT !.op = "created", !.outcome = resp,
                                  !.detached = op.detached]
          /\ isAssignmentModalOpen' = ModalOpenAfterCreate(isAssignmentModalOpen, resp)
          /\ modal' = IF ~isAssignmentModalOpen' THEN ModalClosed
                      ELSE IF op.detached THEN modal
                      ELSE \* lines 164-169
                           [modal EXCEPT !.error = "Failed to create assignment",
                                         !.loading = FALSE]
          /\ qops' = IF isAssignmentModalOpen' THEN EndOp(qops, op)
                     ELSE Detached(EndOp(qops, op))
      /\ ModalFrame

\* Login.jsx lines 179 and 244, App.jsx line 477: the modal is closed
ModalClose ==
    /\ isAssignmentModalOpen
    /\ isAssignmentModalOpen' = FALSE
    /\ modal' = ModalClosed
    /\ qops' = Detached(qops)
    /\ qEv' = NoQEv
    /\ ModalFrame

\* the questions of a generation, with or without rubrics
RubricedList(n, rubrics) ==
    [i \in 1..n |-> NewQuestion(i, NoId, GeneratedQuestion, rubrics, FALSE)]

\* an authenticated client on /questions holding generated questions, or
\* questions that an earlier handleProceed persisted
InitPublish ==
    /\ ParseIdle
    /\ SubIdle
    /\ pathname = "/questions"
    /\ urlAuthToken = NoToken
    /\ storedToken = NoToken
    /\ isAuthenticated = TRUE
    /\ authChecked = TRUE
    /\ mounted = TRUE
    /\ runs = [r \in 1..MaxRuns |-> IdleRun]
    /\ tokenEntry = NoEntry
    /\ exchangesSent = 0
    /\ authEv = NoAuthEv
    /\ currentStep = "questions_generated"
    /\ isLoading = FALSE
    /\ loadingRubricIndex = 0
    /\ isModalOpen = FALSE
    /\ customQuestionIndex = 0
    /\ isAssignmentModalOpen = FALSE
    /\ modal = ModalClosed
    /\ qops = EmptyBag
    /\ qEv = NoQEv
    /\ clicks = 0
    /\ \E n \in 1..MaxQuestions :
          \/ \E rubrics \in {"none", RubricFor(GeneratedQuestion)} :
                /\ assignmentQuestions = RubricedList(n, rubrics)
                /\ questionsToAssign = <<>>
                /\ assignmentTopic = ""
                /\ questionStore = <<>>
                /\ storeAnswers = {}
          \/ /\ assignmentQuestions = PersistedList(n)
             /\ questionsToAssign = PersistedList(n)
             /\ assignmentTopic = "topic"
             /\ questionStore = Contents(PersistedList(n))
             /\ storeAnswers = {Contents(PersistedList(n))}

NextPublish ==
    \/ RegenerateClick
    \/ RegenerateResponse
    \/ GenerateRubricsClick
    \/ RubricsResponse
    \/ ProceedClick
    \/ StoreResponse
    \/ ModalCoursesResponse
    \/ ModalSelectCourse
    \/ ModalSubmit
    \/ CreateResponse
    \/ ModalClose

SpecPublish == InitPublish /\ [][NextPublish]_vars

\* the question list up to the store call: regenerate, rubrics and Proceed
NextProceed ==
    \/ RegenerateClick
    \/ RegenerateResponse
    \/ GenerateRubricsClick
    \/ RubricsResponse
    \/ ProceedClick
    \/ StoreResponse

SpecProceed == InitPublish /\ [][NextProceed]_vars

\* a client holding questions that an earlier handleProceed persisted
InitAssign == InitPublish /\ questionStore # <<>>

SpecAssign == InitAssign /\ [][NextPublish]_vars

\* C19: an assignment is published only from persisted questions: the
\* questions in the body of every /api/classroom/create-assignment request,
\* at the step that sends it and while it is in flight, are the
\* stored_questions that a /api/store-questions call answered with (ok,
\* status 'success'), each carrying its id.
C19_PublishedFromStore ==
    /\ qEv.op = "create" =>
          /\ qEv.sent \in storeAnswers
          /\ \A k \in 1..Len(qEv.sent) : qEv.sent[k].id # NoId
    /\ \A op \in BagToSet(qops) : op.kind = "create" => op.body \in storeAnswers

\* a create request is sent with questions that were stored, edited and
\* stored again
C19_Witness ==
    /\ qEv.op = "create"
    /\ Cardinality(storeAnswers) >= 2
    /\ \E k \in 1..Len(qEv.sent) : qEv.sent[k].question = RegeneratedQuestion.question

\* C20: the Question Store gives every persisted question a non-empty
\* identifier that no other stored question has, returns every stored record
\* with its identifier attached, and never changes an identifier or gives it
\* to another question afterwards.
C20_StoreIdsUniqueAndStable ==
    /\ [](/\ \A k \in 1..Len(questionStore) : questionStore[k].id # NoId
          /\ \A j, k \in 1..Len(questionStore) :
                j # k => questionStore[j].id # questionStore[k].id
          /\ (qEv.op = "store" /\ qEv.outcome = "success") =>
                /\ \A k \in 1..Len(qEv.sent) :
                      /\ qEv.sent[k].id # NoId
                      /\ \E j \in 1..Len(questionStore) : questionStore[j] = qEv.sent[k]
                /\ \A j, k \in 1..Len(qEv.sent) :
                      j # k => qEv.sent[j].id # qEv.sent[k].id)
    /\ [][\A k \in 1..Len(questionStore) :
            /\ k <= Len(questionStore')
            /\ questionStore'[k].id = questionStore[k].id]_vars

\* a store call returned a list with a question stored before, under the id
\* it had, and a question stored for the first time
C20_Witness ==
    /\ qEv.op = "store"
    /\ qEv.outcome = "success"
    /\ Cardinality(storeAnswers) >= 2
    /\ \E j, k \in 1..Len(qEv.sent) :
          /\ qEv.sent[j].question = GeneratedQuestion.question
          /\ qEv.sent[k].question = RegeneratedQuestion.question
          /\ qEv.sent[j].id < qEv.sent[k].id

\* ------------------------------- AssignmentModal: the assignment preview

\* a question without marks (marks undefined or null)
NoMarks == -1

\* the marks a generation endpoint may answer with
MarksValues == {NoMarks, 0, 5, 10}

\* the marks counted as they are
MarksAsGiven(marks) == marks

\* Login.jsx line 225: q.marks || 0
MarksOrZero(marks) == IF marks = NoMarks THEN 0 ELSE marks

\* Login.jsx line 225: questions.reduce((sum, q) => sum + (q.marks || 0), 0),
\* from the left, sum being the total of the questions before index k
RECURSIVE ReduceMarks(_, _, _)
ReduceMarks(questions, k, sum) ==
    IF k > Len(questions) THEN sum
    ELSE ReduceMarks(questions, k + 1, sum + MarksOrZero(questions[k].marks))

TotalMarks(questions) == ReduceMarks(questions, 1, 0)

\* the questions of a store answer whose marks are the given ones
PreviewList(marks) ==
    [k \in 1..Len(marks) |->
        NewQuestion(k, k, [question |-> GeneratedQuestion.question, marks |-> marks[k]],
                    RubricFor(GeneratedQuestion), FALSE)]

MarksLists == UNION {[1..n -> MarksValues] : n \in 0..MaxQuestions}

\* the assignment modal was just opened by handleProceed on a list of
\* stored questions
InitPreview ==
    /\ ParseIdle
    /\ SubIdle
    /\ pathname = "/questions"
    /\ urlAuthToken = NoToken
    /\ storedToken = NoToken
    /\ isAuthenticated = TRUE
    /\ authChecked = TRUE
    /\ mounted = TRUE
    /\ runs = [r \in 1..MaxRuns |-> IdleRun]
    /\ tokenEntry = NoEntry
    /\ exchangesSent = 0
    /\ authEv = NoAuthEv
    /\ currentStep = "questions_generated"
    /\ isLoading = FALSE
    /\ loadingRubricIndex = 0
    /\ isModalOpen = FALSE
    /\ customQuestionIndex = 0
    /\ isAssignmentModalOpen = TRUE
    /\ modal = ModalMounted
    /\ qops = EmptyBag
    /\ qEv = NoQEv
    /\ clicks = 0
    /\ \E marks \in MarksLists :
          /\ assignmentQuestions = PreviewList(marks)
          /\ questionsToAssign = PreviewList(marks)
          /\ assignmentTopic = IF marks # <<>> THEN "topic" ELSE "General Assignment"
          /\ questionStore = Contents(PreviewList(marks))
          /\ storeAnswers = {Contents(PreviewList(marks))}

NextPreview ==
    \/ ModalCoursesResponse
    \/ ModalSelectCourse
    \/ ModalSubmit
    \/ CreateResponse
    \/ ModalClose

SpecPreview == InitPreview /\ [][NextPreview]_vars

\* the questions that carry marks
WithMarks(questions) == {k \in 1..Len(questions) : questions[k].marks # NoMarks}

\* the sum of the marks of the questions in the set of indices
RECURSIVE SumOfMarks(_, _)
SumOfMarks(questions, indices) ==
    IF indices = {} THEN 0
    ELSE LET k == CHOOSE k \in indices : TRUE
         IN questions[k].marks + SumOfMarks(questions, indices \ {k})

\* C21: the total marks shown in the assignment preview is the sum of the
\* marks of the questions, a question without marks counting as 0.
C21_TotalIsSumOfMarks ==
    isAssignmentModalOpen =>
        TotalMarks(questionsToAssign)
            = SumOfMarks(questionsToAssign, WithMarks(questionsToAssign))

\* the preview shows a list with a question without marks between
\* questions with marks
C21_Witness ==
    /\ isAssignmentModalOpen
    /\ Len(questionsToAssign) >= 2
    /\ WithMarks(questionsToAssign) # {}
    /\ WithMarks(questionsToAssign) # 1..Len(questionsToAssign)
    /\ TotalMarks(questionsToAssign) > 0

\* the create requests in flight
CreatesInFlight(ops) == ops (-) MapBag(ops, LAMBDA op : IF op.kind = "create" THEN NoOp ELSE op)

\* C22: assignment creation is all-or-nothing for the caller: at the step in
\* which a create-assignment request fails (status not ok, or thrown) the
\* modal stays as open as it was, showing the error when it is the modal
\* that sent the request, the questions, the topic and the store are
\* unchanged and no request is sent; the answer to a create request closes
\* the modal only when it is ok; and a submit without a selected course
\* sends no request.
C22_CreateAllOrNothing ==
    [][/\ (qEv'.op = "created" /\ qEv'.outcome # "ok") =>
            /\ isAssignmentModalOpen' = isAssignmentModalOpen
            /\ (isAssignmentModalOpen' /\ ~qEv'.detached) =>
                  (modal'.error = "Failed to create assignment" /\ ~modal'.loading)
            /\ UNCHANGED <<assignmentQuestions, questionsToAssign, assignmentTopic,
                           currentStep, questionStore, storeAnswers>>
            /\ BagCardinality(qops') < BagCardinality(qops)
       /\ (qEv'.op = "created" /\ isAssignmentModalOpen /\ ~isAssignmentModalOpen') =>
            qEv'.outcome = "ok"
       /\ BagCardinality(CreatesInFlight(qops')) > BagCardinality(CreatesInFlight(qops)) =>
            (modal.selectedCourse # "" /\ qEv'.op = "create")]_vars

\* a create request of the open modal failed
C22_Witness ==
    /\ qEv.op = "created"
    /\ qEv.outcome \in {"notok", "throw"}
    /\ ~qEv.detached
    /\ isAssignmentModalOpen
    /\ modal.error = "Failed to create assignment"
    /\ questionsToAssign # <<>>

\* the rubric requests in flight
RubricsInFlight(ops) ==
    ops (-) MapBag(ops, LAMBDA op : IF op.kind = "rubrics" THEN NoOp ELSE op)

\* C23: a rubric shown for a question was generated from the text and marks
\* the question holds: once all requests have completed, every question has
\* no rubric or the rubric requested for what it now holds; and the step in
\* which a rubric response arrives leaves the text and marks of its row as
\* they were in the list (it does not bring back a text that was replaced).
C23_RubricMatchesQuestion ==
    /\ [](qops = EmptyBag =>
            \A k \in 1..Len(assignmentQuestions) :
                \/ assignmentQuestions[k].rubrics = "none"
                \/ assignmentQuestions[k].rubrics = RubricFor(assignmentQuestions[k]))
    /\ [][qEv'.op = "rubrics" =>
            /\ qEv'.index \in 1..Len(assignmentQuestions)
            /\ qEv'.index \in 1..Len(assignmentQuestions')
            /\ assignmentQuestions'[qEv'.index].question
                  = assignmentQuestions[qEv'.index].question
            /\ assignmentQuestions'[qEv'.index].marks
                  = assignmentQuestions[qEv'.index].marks]_vars

\* C24: rubric generation for distinct questions loses no update: when a
\* rubric request succeeds, the rows whose rubric was set by other requests
\* while it was in flight still hold what those put there; and
\* loadingRubricIndex is null only when no rubric request is outstanding.
C24_RubricsLoseNoUpdate ==
    /\ (qEv.op = "rubrics" /\ qEv.outcome = "ok" /\ qEv.hadPeers) => qEv.peersKept
    /\ loadingRubricIndex = 0 => RubricsInFlight(qops) = EmptyBag

\* ------------------------------- claims about the submissions view

\* C25: the assignments list belongs to the selected course: every
\* /api/classroom/assignments response that sets assignments while a course
\* is selected sets the assignments of that course, so a late response for a
\* course selected before does not overwrite the list of the current one.
C25_AssignmentsOfSelectedCourse ==
    [][(assignments' # assignments /\ selectedCourse # "") =>
            assignments' = ServerAssignments(selectedCourse)]_vars

\* C26: every change of the selected course, the change back to the empty
\* selection included, resets selectedAssignment to empty and submissions to
\* the empty list, so with no course selected no assignment is selected and
\* no submissions are shown.
C26_CourseChangeResets ==
    /\ [][selectedCourse' # selectedCourse =>
            (selectedAssignment' = "" /\ submissions' = <<>>)]_vars
    /\ [](selectedCourse = "" => (selectedAssignment = "" /\ submissions = <<>>))

\* the view after course c2 and then course c1 were selected, the
\* assignments of c1 arrived, one of them was selected, and the assignments
\* of c2 arrived late
InitLoading ==
    /\ AuthIdle
    /\ ParseIdle
    /\ QIdle
    /\ courses = <<"c1", "c2">>
    /\ selectedCourse = "c1"
    /\ selectedAssignment = "a1"
    /\ assignments = ServerAssignments("c2")
    /\ submissions = <<>>
    /\ loading = FALSE
    /\ error = ""
    /\ asgReqs = [c \in Courses |-> 0]
    /\ gradePc = "idle"
    /\ reqLog = {}
    /\ gradeHist = NoGradeHist
    /\ gradeEv = NoGradeEv

NextLoading ==
    \/ SelectAssignment
    \/ FetchSubmissionsClick
    \/ SubmissionsResponse
    \/ GradeClick
    \/ LookupResponse
    \/ GradeResponse

SpecLoading == InitLoading /\ [][NextLoading]_vars

\* fetchSubmissions or handleGradeSubmissions is at one of its awaits
OperationInFlight == gradePc \in {"submissions", "lookupIds", "lookupTitle", "grading"}

\* C27: the loading flag brackets every operation: loading is true exactly
\* while fetchSubmissions or handleGradeSubmissions is at one of its awaits
\* (every exit has set it back to false), it becomes true only with a course
\* and an assignment selected, and for grading with assignments and
\* submissions held, and an operation starts only when none is in flight.
C27_LoadingBracketsOperations ==
    /\ [](loading <=> OperationInFlight)
    /\ [][(~loading /\ loading') =>
            /\ selectedCourse # "" /\ selectedAssignment # ""
            /\ ~OperationInFlight
            /\ gradePc' # "submissions" =>
                  (assignments # <<>> /\ submissions # <<>>
                   /\ SelectedAssignmentData # <<>>)]_vars

\* handleGradeSubmissions left through 'Selected assignment not found' with
\* loading false
C27_Witness ==
    /\ gradeEv.op = "notfound"
    /\ ~loading
    /\ submissions # <<>>

\* --------------------------------------- claims about the rendered routes

\* C28: the content of /home, /questions and /submissions is rendered only
\* when isAuthenticated is true, and otherwise the route redirects to
\* /login; while authChecked is false no route is rendered at all (the
\* loading screen is).
C28_ProtectedContentNeedsAuth ==
    LET view == Rendered(authChecked, pathname, isAuthenticated)
    IN /\ view = "content" => (isAuthenticated /\ ProtectedPath(pathname))
       /\ (authChecked /\ ProtectedPath(pathname) /\ ~isAuthenticated) => view = "redirect"
       /\ ~authChecked => view = "loading"

\* the session token was accepted for a client on a protected route, whose
\* content is rendered
C28_Witness ==
    /\ authEv.op = "check" /\ authEv.verify = "ok_true"
    /\ ProtectedPath(pathname)
    /\ Rendered(authChecked, pathname, isAuthenticated) = "content"

\* C29: on every path from the start of the application authChecked
\* eventually becomes true, and once true it is never set back to false.
C29_AuthCheckConcludes ==
    /\ <>authChecked
    /\ [][authChecked => authChecked']_vars

\* the check concluded through the catch block of checkAuthStatus
C29_Witness ==
    /\ authChecked
    /\ authEv.op = "check"
    /\ "throw" \in {authEv.cookie, authEv.verify}

\* ------------------------------------------------ claims about Proceed

\* the store-questions requests in flight
StoresInFlight(ops) == ops (-) MapBag(ops, LAMBDA op : IF op.kind = "store" THEN NoOp ELSE op)

\* every question of the list has rubrics
Complete(list) == \A k \in 1..Len(list) : list[k].rubrics # "none"

\* C30: Proceed sends /api/store-questions only when every question of
\* assignmentQuestions has rubrics, and then with that list; otherwise it
\* sends nothing and leaves assignmentQuestions, questionsToAssign and the
\* assignment modal unchanged; and when the store call fails or answers
\* without status 'success', the modal is not opened and assignmentQuestions
\* is unchanged.
C30_ProceedOnlyWhenComplete ==
    /\ [][BagCardinality(StoresInFlight(qops')) > BagCardinality(StoresInFlight(qops)) =>
            /\ qEv'.op = "proceed"
            /\ Complete(assignmentQuestions)
            /\ \E op \in BagToSet(StoresInFlight(qops')) :
                  op.body = Contents(assignmentQuestions)]_vars
    /\ [][qEv'.op = "proceed" =>
            /\ assignmentQuestions' = assignmentQuestions
            /\ questionsToAssign' = questionsToAssign
            /\ isAssignmentModalOpen' = isAssignmentModalOpen
            /\ modal' = modal
            /\ IF Complete(assignmentQuestions)
               THEN /\ qEv'.outcome = "sent"
                    /\ BagCardinality(StoresInFlight(qops')) =
                           BagCardinality(StoresInFlight(qops)) + 1
               ELSE qEv'.outcome = "alert" /\ qops' = qops]_vars
    /\ [][(qEv'.op = "store" /\ qEv'.outcome # "success") =>
            /\ isAssignmentModalOpen' = isAssignmentModalOpen
            /\ modal' = modal
            /\ assignmentQuestions' = assignmentQuestions
            /\ questionsToAssign' = questionsToAssign]_vars

\* Proceed was refused for a list with a question without rubrics, after a
\* rubric had been generated for another question of the list
C30_Witness ==
    /\ qEv.op = "proceed" /\ qEv.outcome = "alert"
    /\ \E k \in 1..Len(assignmentQuestions) : assignmentQuestions[k].rubrics # "none"
    /\ StoresInFlight(qops) = EmptyBag

====
